---- MODULE Spec2Model ----
(***************************************************************************)
(* A model of ufoProcessor (Lib/ufoProcessor/__init__.py): the glyph swap  *)
(* used by rule processing (swapGlyphNames) and the DesignSpaceProcessor   *)
(* (mutator cache, makeInstance, generateUFO, build).                      *)
(*                                                                         *)
(* Glyph names are modelled as sequences of tokens, so that                *)
(* oldName + swapNameExtension is Append(oldName, swapNameExtension) and   *)
(* name.find(swapNameExtension) != -1 is "the token occurs in the name".   *)
(***************************************************************************)
EXTENDS Integers, Sequences, FiniteSets, TLC

VARIABLES
    font,           \* the defcon font handed to swapGlyphNames
    fontHist,       \* the font as it was before each swapGlyphNames call so far
    callHist,       \* the (oldName, newName) arguments of each call so far
    doc,            \* the designspace document read, with the UFOs of its sources
    fonts,          \* self.fonts: source name -> font, or None for a missing UFO
    fontsLoaded,    \* self._fontsLoaded
    glyphNames,     \* self.glyphNames
    glyphMutators,  \* self._glyphMutators: (name, decomposeComponents) -> mutator
    infoMutator,    \* self._infoMutator
    kerningMutator, \* self._kerningMutator
    problems,       \* self.problems
    nextId,         \* the identity the next mutator object gets
    disk,           \* instance path -> format version of the UFO there, or None
    calls,          \* number of calls and edits so far
    last            \* the last call: arguments, outcome and what it did

vars == <<font, fontHist, callHist, doc, fonts, fontsLoaded, glyphNames, glyphMutators,
          infoMutator, kerningMutator, problems, nextId, disk, calls, last>>

\* Number of swapGlyphNames calls followed in one behaviour.
MaxSwaps == 2

-----------------------------------------------------------------------------
(* Names and fonts                                                          *)

swapNameExtension == "_______________swap"

NameA == <<"a">>
NameB == <<"b">>
NameC == <<"c">>
\* the name "a" + swapNameExtension, which a font may hold as a glyph name
NameP == <<"a", swapNameExtension>>

GlyphNameUniverse == {NameA, NameB, NameC, NameP}

\* defcon Font.newGlyph(name): an empty glyph, width 0, no unicodes.
EmptyGlyph == [outline |-> <<>>, components |-> <<>>, width |-> 0, unicodes |-> <<>>]

NewGlyph(glyphs, name) ==
    [n \in (DOMAIN glyphs) \cup {name} |-> IF n = name THEN EmptyGlyph ELSE glyphs[n]]

\* glyph.clear(): contours and components go, width and unicodes stay.
GlyphClear(glyphs, name) ==
    [glyphs EXCEPT ![name].outline = <<>>, ![name].components = <<>>]

\* font[src].drawPoints(font[dst].getPointPen()): the contours and the
\* components of src are appended to those of dst.
DrawPoints(glyphs, src, dst) ==
    [glyphs EXCEPT ![dst].outline = glyphs[dst].outline \o glyphs[src].outline,
                   ![dst].components = glyphs[dst].components \o glyphs[src].components]

SetWidth(glyphs, dst, src) ==
    [glyphs EXCEPT ![dst].width = glyphs[src].width]

\* clear dst, draw src into it, copy the width: one of the three copies of
\* the outline exchange.
CopyShape(glyphs, src, dst) ==
    SetWidth(DrawPoints(GlyphClear(glyphs, dst), src, dst), dst, src)

\* one full pass over every component of every glyph of the font
RemapPass(glyphs, from, to) ==
    [n \in DOMAIN glyphs |->
        [glyphs[n] EXCEPT !.components =
            [i \in 1..Len(glyphs[n].components) |->
                IF glyphs[n].components[i] = from THEN to
                ELSE glyphs[n].components[i]]]]

RemapComponents(glyphs, oldName, newName, swapName) ==
    RemapPass(RemapPass(RemapPass(glyphs, oldName, swapName), newName, oldName),
              swapName, newName)

\* the renaming with the second test made on the renamed name ("if" where
\* the code has "elif"): old is renamed to new and back again
SwapNameSecondIfNotElif(name, oldName, newName) ==
    LET renamed == IF name = oldName THEN newName ELSE name
    IN  IF renamed = newName THEN oldName ELSE renamed

\* the renaming of one kerning or group name
SwapName(name, oldName, newName) ==
    IF name = oldName THEN newName
    ELSE IF name = newName THEN oldName
    ELSE name

SwapKerning(kerning, oldName, newName) ==
    LET Renamed(p) == <<SwapName(p[1], oldName, newName), SwapName(p[2], oldName, newName)>>
        newKeys == {Renamed(p) : p \in DOMAIN kerning}
    IN  [q \in newKeys |-> kerning[CHOOSE p \in DOMAIN kerning : Renamed(p) = q]]

SwapGroups(groups, oldName, newName) ==
    [g \in DOMAIN groups |->
        [i \in 1..Len(groups[g]) |-> SwapName(groups[g][i], oldName, newName)]]

HasSwapExtension(name) == \E i \in 1..Len(name) : name[i] = swapNameExtension

RemoveParked(glyphs) ==
    [n \in {m \in DOMAIN glyphs : ~HasSwapExtension(m)} |-> glyphs[n]]

\* a variant that makes the parking glyph before it looks for the two names
swapGlyphNamesParksBeforeGuard(f, oldName, newName) ==
    LET swapName == Append(oldName, swapNameExtension)
        g0 == IF swapName \notin DOMAIN f.glyphs
              THEN NewGlyph(f.glyphs, swapName) ELSE f.glyphs
    IN  IF oldName \notin DOMAIN f.glyphs \/ newName \notin DOMAIN f.glyphs
        THEN [f EXCEPT !.glyphs = g0]
        ELSE LET g1 == CopyShape(g0, oldName, swapName)
                 g2 == CopyShape(g1, newName, oldName)
                 g3 == CopyShape(g2, swapName, newName)
                 g4 == RemapComponents(g3, oldName, newName, swapName)
             IN  [f EXCEPT !.glyphs  = RemoveParked(g4),
                           !.kerning = SwapKerning(f.kerning, oldName, newName),
                           !.groups  = SwapGroups(f.groups, oldName, newName)]

swapGlyphNames(f, oldName, newName) ==
    IF oldName \notin DOMAIN f.glyphs \/ newName \notin DOMAIN f.glyphs
    THEN f
    ELSE LET swapName == Append(oldName, swapNameExtension)
             g0 == IF swapName \notin DOMAIN f.glyphs
                   THEN NewGlyph(f.glyphs, swapName) ELSE f.glyphs
             g1 == CopyShape(g0, oldName, swapName)
             g2 == CopyShape(g1, newName, oldName)
             g3 == CopyShape(g2, swapName, newName)
             g4 == RemapComponents(g3, oldName, newName, swapName)
         IN  [f EXCEPT !.glyphs  = RemoveParked(g4),
                       !.kerning = SwapKerning(f.kerning, oldName, newName),
                       !.groups  = SwapGroups(f.groups, oldName, newName)]

-----------------------------------------------------------------------------
(* The fonts and calls the swap is checked on                               *)

BaseGlyph(name) ==
    CASE name = NameA -> [outline |-> <<1>>, components |-> <<>>, width |-> 100, unicodes |-> <<97>>]
      [] name = NameB -> [outline |-> <<2>>, components |-> <<>>, width |-> 200, unicodes |-> <<98>>]
      [] name = NameC -> [outline |-> <<>>,  components |-> <<>>, width |-> 300, unicodes |-> <<99>>]
      [] OTHER        -> [outline |-> <<4>>, components |-> <<>>, width |-> 400, unicodes |-> <<>>]

GlyphSets == {{NameA, NameB}, {NameA, NameB, NameC}, {NameA, NameB, NameP}}

ComponentChoices(name) ==
    CASE name = NameA -> {<<>>, <<NameB>>}
      [] name = NameB -> {<<>>, <<NameA>>, <<NameP>>}
      [] OTHER        -> {<<>>, <<NameA, NameB>>}

KerningAndGroups ==
    { [kerning |-> <<>>, groups |-> [g \in {"public.kern1.x"} |-> <<NameA, NameC>>]],
      [kerning |-> (<<NameA, NameC>> :> 10) @@ (<<NameB, NameC>> :> 20) @@ (<<NameC, NameP>> :> 30),
       groups  |-> [g \in {"public.kern1.x"} |-> <<NameA, NameB, NameA>>]],
      [kerning |-> (<<NameA, NameB>> :> 5) @@ (<<NameB, NameA>> :> 7) @@ (<<NameA, NameA>> :> 9),
       groups  |-> [g \in {"public.kern1.x", "other"} |-> IF g = "other" THEN <<NameB>> ELSE <<>>]] }

ComponentsFor(names) ==
    { c \in [names -> UNION {ComponentChoices(n) : n \in names}] :
        \A n \in names : c[n] \in ComponentChoices(n) }

Fonts ==
    UNION { { [glyphs  |-> [n \in names |-> [BaseGlyph(n) EXCEPT !.components = comps[n]]],
               kerning |-> kg.kerning,
               groups  |-> kg.groups] :
                kg \in KerningAndGroups, comps \in ComponentsFor(names) } :
            names \in GlyphSets }

InitSwap ==
    /\ font \in Fonts
    /\ fontHist = <<>>
    /\ callHist = <<>>
    /\ doc = <<>>
    /\ fonts = <<>>
    /\ fontsLoaded = FALSE
    /\ glyphNames = <<>>
    /\ glyphMutators = <<>>
    /\ infoMutator = <<>>
    /\ kerningMutator = <<>>
    /\ problems = <<>>
    /\ nextId = 1
    /\ disk = <<>>
    /\ calls = 0
    /\ last = <<>>

Swap(oldName, newName) ==
    /\ Len(callHist) < MaxSwaps
    /\ font' = swapGlyphNames(font, oldName, newName)
    /\ fontHist' = Append(fontHist, font)
    /\ callHist' = Append(callHist, <<oldName, newName>>)
    /\ UNCHANGED <<doc, fonts, fontsLoaded, glyphNames, glyphMutators, infoMutator,
                   kerningMutator, problems, nextId, disk, calls, last>>

NextSwap == \E oldName, newName \in GlyphNameUniverse : Swap(oldName, newName)

SpecSwap == InitSwap /\ [][NextSwap]_vars

-----------------------------------------------------------------------------
(* DesignSpaceProcessor: locations and interpolatable values                *)

\* Python's None: the empty tuple.  What can be None is otherwise a record
\* or a tuple that is not empty: a number n is <<n>>, a string s is <<s>>,
\* a list l is [values |-> l]
None == <<>>

\* F(v) with v computed once: Python evaluates a call when it binds its
\* result to a name
Bind(v, F(_)) == CHOOSE out \in {F(w) : w \in {v}} : TRUE

\* the value of a location on one axis: a number, or the tuple (x, y) of an
\* anisotropic location
Scalar(v) == [tuple |-> FALSE, x |-> v, y |-> v]
Pair(x, y) == [tuple |-> TRUE, x |-> x, y |-> y]

Axes == {"weight"}
Loc(w) == [a \in Axes |-> Scalar(w)]

isAnisotropic(location) == \E a \in DOMAIN location : location[a].tuple

\* a variant that hands the two halves out the other way round
splitAnisotropicHalvesSwapped(location) ==
    [x |-> [a \in DOMAIN location |->
                IF location[a].tuple THEN Scalar(location[a].y) ELSE location[a]],
     y |-> [a \in DOMAIN location |->
                IF location[a].tuple THEN Scalar(location[a].x) ELSE location[a]]]

splitAnisotropic(location) ==
    [x |-> [a \in DOMAIN location |->
                IF location[a].tuple THEN Scalar(location[a].x) ELSE location[a]],
     y |-> [a \in DOMAIN location |->
                IF location[a].tuple THEN Scalar(location[a].y) ELSE location[a]]]

\* the exception names used below
NoException == "none"

\* fontMath: a value times a factor pair (fx, fy), and the sum of two values.
\* Horizontal quantities (x, width, kerning) take fx, vertical ones fy.
ScaleGlyph(g, fx, fy) ==
    [g EXCEPT !.outline = [i \in 1..Len(g.outline) |->
                              <<g.outline[i][1] * fx, g.outline[i][2] * fy>>],
              !.width = g.width * fx]

\* self + other indexes other's points by self's: IndexError when other is shorter
AddRaises(g, h) == Len(g.outline) > Len(h.outline)

AddGlyph(g, h) ==
    [g EXCEPT !.outline = [i \in 1..Len(g.outline) |->
                              <<g.outline[i][1] + h.outline[i][1],
                                g.outline[i][2] + h.outline[i][2]>>],
              !.width = g.width + h.width]

ScaleInfo(v, fx, fy) ==
    [v EXCEPT !.ascender = v.ascender * fy,
              !.postscriptDefaultWidthX = v.postscriptDefaultWidthX * fx]

AddInfo(v, w) ==
    [v EXCEPT !.ascender = v.ascender + w.ascender,
              !.postscriptDefaultWidthX = v.postscriptDefaultWidthX + w.postscriptDefaultWidthX]

\* linear interpolation of one number between the masters at lo and hi
Lerp(vlo, vhi, lo, hi, w) ==
    IF hi = lo THEN vlo ELSE vlo + ((vhi - vlo) * (w - lo)) \div (hi - lo)

-----------------------------------------------------------------------------
(* The variation model (mutatorMath.buildMutator / VariationModelMutator)   *)

ItemsAt(items, location) == {i \in 1..Len(items) : items[i].loc = location}

\* the item at the bias (default) location: mutator.get(())
NeutralItem(items, bias) ==
    IF ItemsAt(items, bias) = {} THEN None
    ELSE items[CHOOSE i \in ItemsAt(items, bias) : \A j \in ItemsAt(items, bias) : i <= j]

\* glyph masters whose point structures differ cannot be subtracted or added
Incompatible(kind, items) ==
    /\ kind = "glyph"
    /\ \E i, j \in 1..Len(items) : Len(items[i].value.outline) # Len(items[j].value.outline)

\* mutatorMath subtracts the neutral from every master while building;
\* both back-ends need a master at the default location
BuildRaises(kind, items, bias, useVarlib) ==
    \/ ItemsAt(items, bias) = {}
    \/ \E i, j \in 1..Len(items) : i # j /\ items[i].loc = items[j].loc
    \/ /\ ~useVarlib
       /\ kind = "glyph"
       /\ \E i \in 1..Len(items) :
            Len(items[i].value.outline) > Len(NeutralItem(items, bias).value.outline)

\* mutator.makeInstance(location) raises IndexError on masters that do not align
EvaluateRaises(mutator) == Incompatible(mutator.kind, mutator.items)

\* the masters bracketing w on the weight axis
Below(items, w) == {i \in 1..Len(items) : items[i].loc["weight"].x <= w}
Above(items, w) == {i \in 1..Len(items) : items[i].loc["weight"].x >= w}
NearestBelow(items, w) ==
    CHOOSE i \in Below(items, w) :
        \A j \in Below(items, w) : items[j].loc["weight"].x <= items[i].loc["weight"].x
NearestAbove(items, w) ==
    CHOOSE i \in Above(items, w) :
        \A j \in Above(items, w) : items[j].loc["weight"].x >= items[i].loc["weight"].x

\* mutator.makeInstance(location) for a location that is not anisotropic:
\* piecewise linear between the two masters around it, the nearest master
\* outside their range
Evaluate(mutator, location) ==
    LET items == mutator.items
        w     == location["weight"].x
        lo    == IF Below(items, w) = {} THEN NearestAbove(items, w) ELSE NearestBelow(items, w)
        hi    == IF Above(items, w) = {} THEN NearestBelow(items, w) ELSE NearestAbove(items, w)
        a     == items[lo].value
        b     == items[hi].value
        wl    == items[lo].loc["weight"].x
        wh    == items[hi].loc["weight"].x
        N(x, y) == Lerp(x, y, wl, wh, w)
    IN  CASE mutator.kind = "glyph" ->
               [a EXCEPT !.outline = [i \in 1..Len(a.outline) |->
                                        <<N(a.outline[i][1], b.outline[i][1]),
                                          N(a.outline[i][2], b.outline[i][2])>>],
                         !.width = N(a.width, b.width)]
          [] mutator.kind = "info" ->
               [a EXCEPT !.ascender = N(a.ascender, b.ascender),
                         !.postscriptDefaultWidthX =
                              N(a.postscriptDefaultWidthX, b.postscriptDefaultWidthX)]
          [] OTHER ->
               [a EXCEPT !.pairs = [pair \in DOMAIN a.pairs |->
                    N(a.pairs[pair], IF pair \in DOMAIN b.pairs THEN b.pairs[pair] ELSE 0)]]

-----------------------------------------------------------------------------
(* DesignSpaceProcessor: the mutator cache                                  *)
(*                                                                          *)
(* The processor is the record p of its fields; d is the document it has    *)
(* read. Every method is an operator from p to the record                   *)
(*   [p |-> the processor afterwards, exc |-> the exception raised or       *)
(*    "none", ret |-> the value returned].                                  *)
(* p.built, p.made, p.saves and p.silent record what one call did: the      *)
(* models it tried to build, the instances it assembled, the fonts it       *)
(* saved and the exceptions it caught without a problem entry.              *)

Put(f, k, v) == [x \in (DOMAIN f) \cup {k} |-> IF x = k THEN v ELSE f[x]]

Returned(p, ret) == [p |-> p, exc |-> NoException, ret |-> ret]
Raised(p, exc) == [p |-> p, exc |-> exc, ret |-> None]

Problem(p, entry) == [p EXCEPT !.problems = Append(p.problems, entry)]

\* DesignSpaceDocument.findDefault: the first source at the default location
findDefault(d) ==
    LET at == {i \in 1..Len(d.sources) : d.sources[i].location = d.defaultLoc}
    IN  IF at = {} THEN None
        ELSE d.sources[CHOOSE i \in at : \A j \in at : i <= j]

\* list(names): the names in the iteration order of the set
ListOf(names, order) ==
    LET RECURSIVE Pick(_)
        Pick(i) == IF i > Len(order) THEN <<>>
                   ELSE (IF order[i] \in names THEN <<order[i]>> ELSE <<>>) \o Pick(i + 1)
    IN  Pick(1)

RECURSIVE LoadSources(_, _, _, _)
LoadSources(p, d, i, names) ==
    IF i > Len(d.sources)
    THEN [p EXCEPT !.glyphNames = ListOf(names, d.order), !.fontsLoaded = TRUE]
    ELSE LET sd == d.sources[i]
         IN  IF sd.name \in DOMAIN p.fonts
             THEN LoadSources(p, d, i + 1, names)
             ELSE IF sd.exists
             THEN LoadSources(
                      Problem([p EXCEPT !.fonts = Put(p.fonts, sd.name, d.ufos[sd.name])],
                              <<"loaded master from", sd.name>>),
                      d, i + 1, names \cup DOMAIN d.ufos[sd.name].glyphs)
             ELSE LoadSources(
                      Problem([p EXCEPT !.fonts = Put(p.fonts, sd.name, None)],
                              <<"source ufo not found at", sd.name>>),
                      d, i + 1, names)

loadFonts(p, d, reload) ==
    IF p.fontsLoaded /\ ~reload THEN p ELSE LoadSources(p, d, 1, {})

\* a new mutator object
NewMutator(p, d, kind, items) ==
    [id |-> p.nextId, kind |-> kind, items |-> items,
     varlib |-> d.useVarlib]

getVariationModel(p, d, kind, items) ==
    LET q == [p EXCEPT !.built = p.built + 1]
    IN  IF BuildRaises(kind, items, d.defaultLoc, d.useVarlib)
        THEN Returned(Problem(q, <<"UFOProcessor.getVariationModel error", kind>>), None)
        ELSE Returned([q EXCEPT !.nextId = p.nextId + 1], NewMutator(p, d, kind, items))

\* bias, mutator = self.getVariationModel(...): unpacking None raises
Unpacked(r) == IF r.ret = None THEN Raised(r.p, "TypeError") ELSE r

\* if self._infoMutator: a mutator that was built holds its neutral
Truthy(mutator) == mutator # None

\* the interpolatable fields of the metadata, and the kerning with its groups.
\* A number of a font's info is held as <<n>>, an attribute not set as None.
MathInfo(sourceFont) ==
    [ascender |-> sourceFont.info.ascender[1],
     postscriptDefaultWidthX |-> sourceFont.info.postscriptDefaultWidthX[1]]

MathKerning(kerning, groups) == [pairs |-> kerning, groups |-> groups]

\* the (loc, value) items of a font-wide entity, one per source
RECURSIVE FontItems(_, _, _, _)
FontItems(p, d, kind, i) ==
    IF i > Len(d.sources) THEN [exc |-> NoException, items |-> <<>>]
    ELSE LET sd == d.sources[i]
         IN  IF sd.name \notin DOMAIN p.fonts THEN [exc |-> "KeyError", items |-> <<>>]
             ELSE IF p.fonts[sd.name] = None THEN [exc |-> "AttributeError", items |-> <<>>]
             ELSE LET rest == FontItems(p, d, kind, i + 1)
                      value == IF kind = "info" THEN MathInfo(p.fonts[sd.name])
                               ELSE MathKerning(p.fonts[sd.name].kerning,
                                                p.fonts[sd.name].groups)
                  IN  [rest EXCEPT !.items = <<[loc |-> sd.location, value |-> value]>> \o @]

getInfoMutator(p, d) ==
    IF Truthy(p.infoMutator) THEN Returned(p, p.infoMutator)
    ELSE Bind(FontItems(p, d, "info", 1), LAMBDA infoItems :
         IF infoItems.exc # NoException THEN Raised(p, infoItems.exc)
         ELSE Bind(Unpacked(getVariationModel(p, d, "info", infoItems.items)), LAMBDA r :
              IF r.exc # NoException THEN r
              ELSE Returned([r.p EXCEPT !.infoMutator = r.ret], r.ret)))

getKerningMutator(p, d) ==
    IF Truthy(p.kerningMutator) THEN Returned(p, p.kerningMutator)
    ELSE Bind(FontItems(p, d, "kerning", 1), LAMBDA kerningItems :
         IF kerningItems.exc # NoException THEN Raised(p, kerningItems.exc)
         ELSE Bind(Unpacked(getVariationModel(p, d, "kerning", kerningItems.items)), LAMBDA r :
              IF r.exc # NoException THEN r
              ELSE Returned([r.p EXCEPT !.kerningMutator = r.ret], r.ret)))

\* Python's recursion limit, scaled to the model: the depth at which a
\* drawPoints chain raises RecursionError
MaxRecursion == 3

\* DecomposePointPen: the points of a glyph with every component replaced by
\* the points of its base glyph; a base glyph that is not in the glyph set
\* is dropped. [exc, outline]
RECURSIVE DecomposedOutline(_, _, _)
DecomposedOutline(glyphSet, glyphName, depth) ==
    IF depth > MaxRecursion THEN [exc |-> "RecursionError", outline |-> <<>>]
    ELSE LET g == glyphSet[glyphName]
             RECURSIVE Components(_)
             Components(i) ==
                 IF i > Len(g.components) THEN [exc |-> NoException, outline |-> <<>>]
                 ELSE LET base == IF g.components[i] \in DOMAIN glyphSet
                                  THEN DecomposedOutline(glyphSet, g.components[i], depth + 1)
                                  ELSE [exc |-> NoException, outline |-> <<>>]
                      IN  IF base.exc # NoException THEN base
                          ELSE LET rest == Components(i + 1)
                               IN  [rest EXCEPT !.outline = base.outline \o @]
             drawn == Components(1)
         IN  [drawn EXCEPT !.outline = g.outline \o @]

NoLayer == "(None)"

RECURSIVE CollectMasters(_, _, _, _, _)
CollectMasters(p, d, glyphName, decomposeComponents, i) ==
    IF i > Len(d.sources) THEN [exc |-> NoException, items |-> <<>>]
    ELSE LET sd   == d.sources[i]
             rest == CollectMasters(p, d, glyphName, decomposeComponents, i + 1)
         IN  IF sd.name \notin DOMAIN p.fonts THEN [exc |-> "KeyError", items |-> <<>>]
             ELSE IF glyphName \in sd.mutedGlyphNames THEN rest
             ELSE IF p.fonts[sd.name] = None THEN [exc |-> "TypeError", items |-> <<>>]
             ELSE LET f == p.fonts[sd.name]
                      useLayer == sd.layerName # NoLayer /\ sd.layerName \in DOMAIN f.layers
                      sourceLayer == IF useLayer THEN f.layers[sd.layerName] ELSE f.glyphs
                  IN  IF glyphName \notin DOMAIN f.glyphs THEN rest
                      ELSE IF glyphName \notin DOMAIN sourceLayer THEN rest
                      ELSE LET sourceGlyphObject == sourceLayer[glyphName]
                               flat == DecomposedOutline(sourceLayer, glyphName, 1)
                               temp == [EmptyGlyph EXCEPT !.outline = flat.outline,
                                                          !.width = sourceGlyphObject.width]
                               item == [loc |-> sd.location,
                                        value |-> IF decomposeComponents THEN temp
                                                  ELSE sourceGlyphObject,
                                        sourceName |-> sd.name]
                           IN  IF decomposeComponents /\ flat.exc # NoException
                               THEN [exc |-> flat.exc, items |-> <<>>]
                               ELSE [rest EXCEPT !.items = <<item>> \o @]

collectMastersForGlyph(p, d, glyphName, decomposeComponents) ==
    CollectMasters(p, d, glyphName, decomposeComponents, 1)

\* a variant that never looks into the cache
getGlyphMutatorIgnoringCache(p, d, glyphName, decomposeComponents, fromCache) ==
    Bind(collectMastersForGlyph(p, d, glyphName, decomposeComponents), LAMBDA masters :
        LET items == [i \in 1..Len(masters.items) |->
                        [loc |-> masters.items[i].loc, value |-> masters.items[i].value]]
        IN  IF masters.exc # NoException THEN Raised(p, masters.exc)
            ELSE Bind(Unpacked(getVariationModel(p, d, "glyph", items)), LAMBDA r :
                 IF r.exc # NoException THEN r
                 ELSE Returned([r.p EXCEPT !.glyphMutators =
                                   Put(p.glyphMutators, <<glyphName, decomposeComponents>>,
                                       r.ret)],
                               r.ret)))

getGlyphMutator(p, d, glyphName, decomposeComponents, fromCache) ==
    LET cacheKey == <<glyphName, decomposeComponents>>
    IN  IF cacheKey \in DOMAIN p.glyphMutators /\ fromCache
        THEN Returned(p, p.glyphMutators[cacheKey])
        ELSE Bind(collectMastersForGlyph(p, d, glyphName, decomposeComponents),
                  LAMBDA masters :
             LET items == [i \in 1..Len(masters.items) |->
                             [loc |-> masters.items[i].loc, value |-> masters.items[i].value]]
             IN  IF masters.exc # NoException THEN Raised(p, masters.exc)
                 ELSE Bind(Unpacked(getVariationModel(p, d, "glyph", items)), LAMBDA r :
                      IF r.exc # NoException THEN r
                      ELSE Returned([r.p EXCEPT !.glyphMutators =
                                                   Put(p.glyphMutators, cacheKey, r.ret)],
                                    r.ret)))

-----------------------------------------------------------------------------
(* DesignSpaceProcessor: makeInstance                                       *)

\* self._instantiateFont(None): an empty font
EmptyInfo ==
    [ascender |-> None, postscriptDefaultWidthX |-> None, copyright |-> None,
     familyName |-> None, styleName |-> None, postScriptFontName |-> None,
     styleMapFamilyName |-> None, styleMapStyleName |-> None]

EmptyFont ==
    [glyphs |-> <<>>, kerning |-> <<>>, groups |-> <<>>, info |-> EmptyInfo,
     lib |-> <<>>, features |-> None, layers |-> <<>>]

\* one step of makeInstance: the processor and the font under assembly
Step(p, f) == [p |-> p, font |-> f, exc |-> NoException]
StepRaised(p, f, exc) == [p |-> p, font |-> f, exc |-> exc]

\* lines 461-467: the kerning, at the horizontal location
MakeKerning(p, d, inst, locHorizontal, f) ==
    IF ~inst.kerning THEN Step(p, f)
    ELSE Bind(getKerningMutator(p, d), LAMBDA r :
         IF r.exc # NoException
         THEN Step(Problem(r.p, <<"Could not make kerning for", inst.location>>), f)
         ELSE Bind(Evaluate(r.ret, locHorizontal), LAMBDA kerningObject :
              Step(r.p, [f EXCEPT !.kerning = kerningObject.pairs,
                                  !.groups = kerningObject.groups])))

\* lines 469-493: the info and the names of the instance
MakeInfo(p, d, inst, anisotropic, locHorizontal, locVertical, f) ==
    Bind(getInfoMutator(p, d), LAMBDA r :
        IF r.exc # NoException
        THEN Step(Problem(r.p, <<"Could not make fontinfo for", inst.location>>), f)
        ELSE Bind(IF ~anisotropic THEN Evaluate(r.ret, inst.location)
                  ELSE AddInfo(ScaleInfo(Evaluate(r.ret, locHorizontal), 1, 0),
                               ScaleInfo(Evaluate(r.ret, locVertical), 0, 1)),
                  LAMBDA infoInstanceObject :
             Step(r.p,
                  [f EXCEPT !.info.ascender = <<infoInstanceObject.ascender>>,
                            !.info.postscriptDefaultWidthX =
                                 <<infoInstanceObject.postscriptDefaultWidthX>>,
                            !.info.familyName = inst.familyName,
                            !.info.styleName = inst.styleName,
                            !.info.postScriptFontName = inst.postScriptFontName,
                            !.info.styleMapFamilyName = inst.styleMapFamilyName,
                            !.info.styleMapStyleName = inst.styleMapStyleName])))

\* _copyFontInfo: the non-calculating fields (here: copyright), for the UFO
\* versions that have them
copyFontInfo(d, sourceInfo, targetInfo) ==
    IF d.ufoVersion \in {1, 2, 3}
    THEN [targetInfo EXCEPT !.copyright = sourceInfo.copyright]
    ELSE targetInfo

\* lines 494-507: info, lib and features of the flagged sources
RECURSIVE CopyThrough(_, _, _, _)
CopyThrough(p, d, f, i) ==
    IF i > Len(d.sources) THEN Step(p, f)
    ELSE LET sd == d.sources[i]
             flagged == sd.copyInfo \/ sd.copyLib \/ sd.copyFeatures
         IN  IF ~flagged THEN CopyThrough(p, d, f, i + 1)
             ELSE IF sd.name \notin DOMAIN p.fonts THEN StepRaised(p, f, "KeyError")
             ELSE IF p.fonts[sd.name] = None THEN StepRaised(p, f, "AttributeError")
             ELSE LET src == p.fonts[sd.name]
                      f1 == IF sd.copyInfo
                            THEN [f EXCEPT !.info = copyFontInfo(d, src.info, f.info)] ELSE f
                      f2 == IF sd.copyLib
                            THEN [f1 EXCEPT !.lib = [k \in (DOMAIN f1.lib) \cup (DOMAIN src.lib) |->
                                     IF k \in DOMAIN src.lib THEN src.lib[k] ELSE f1.lib[k]]]
                            ELSE f1
                      f3 == IF sd.copyFeatures /\ src.features # None
                            THEN [f2 EXCEPT !.features = src.features] ELSE f2
                  IN  CopyThrough(p, d, f3, i + 1)

\* lines 566-578: the items of an instance's own masters for one glyph
RECURSIVE OverrideItems(_, _, _, _)
OverrideItems(p, masters, glyphName, i) ==
    IF i > Len(masters) THEN [exc |-> NoException, items |-> <<>>]
    ELSE LET glyphMaster == masters[i]
             sourceGlyphName == IF glyphMaster.glyphName = None THEN glyphName
                                ELSE glyphMaster.glyphName
             m == IF glyphMaster.font \in DOMAIN p.fonts THEN p.fonts[glyphMaster.font]
                  ELSE None
         IN  IF m = None THEN [exc |-> "TypeError", items |-> <<>>]
             ELSE LET rest == OverrideItems(p, masters, glyphName, i + 1)
                  IN  IF sourceGlyphName \notin DOMAIN m.glyphs THEN rest
                      ELSE IF rest.exc # NoException THEN rest
                      ELSE [rest EXCEPT !.items =
                               <<[loc |-> glyphMaster.location,
                                  value |-> m.glyphs[sourceGlyphName]]>> \o @]

NoGlyphData ==
    [mute |-> FALSE, instanceLocation |-> None, unicodes |-> None, masters |-> <<>>]

\* a variant that joins the two halves of a glyph with the factors of the info
EvaluateGlyphWeightsOfInfo(glyphMutator, glyphInstanceLocation) ==
    IF EvaluateRaises(glyphMutator) THEN [exc |-> "IndexError", value |-> None]
    ELSE IF ~isAnisotropic(glyphInstanceLocation)
    THEN [exc |-> NoException, value |-> Evaluate(glyphMutator, glyphInstanceLocation)]
    ELSE LET sp == splitAnisotropic(glyphInstanceLocation)
         IN  [exc |-> NoException,
              value |-> AddGlyph(ScaleGlyph(Evaluate(glyphMutator, sp.x), 1, 0),
                                 ScaleGlyph(Evaluate(glyphMutator, sp.y), 0, 1))]

\* lines 580-589: the glyph at its location; [exc, value]
EvaluateGlyph(glyphMutator, glyphInstanceLocation) ==
    IF EvaluateRaises(glyphMutator) THEN [exc |-> "IndexError", value |-> None]
    ELSE IF ~isAnisotropic(glyphInstanceLocation)
    THEN [exc |-> NoException, value |-> Evaluate(glyphMutator, glyphInstanceLocation)]
    ELSE LET sp == splitAnisotropic(glyphInstanceLocation)
         IN  [exc |-> NoException,
              value |-> AddGlyph(ScaleGlyph(Evaluate(glyphMutator, sp.x), 0, 1),
                                 ScaleGlyph(Evaluate(glyphMutator, sp.y), 1, 0))]

\* lines 517-610: one glyph of the instance
\* lines 580-610: the glyph of the mutator chosen is put into the font
PlaceGlyph(p, f, glyphName, glyphMutator, glyphInstanceLocation, glyphInstanceUnicodes) ==
    Bind(EvaluateGlyph(glyphMutator, glyphInstanceLocation), LAMBDA made :
        IF made.exc = "IndexError"
        THEN Step([p EXCEPT !.silent = Append(@, <<"IndexError", glyphName>>)], f)
        ELSE Step(p, [f EXCEPT !.glyphs[glyphName] =
                         [outline    |-> made.value.outline,
                          components |-> made.value.components,
                          width      |-> made.value.width,
                          unicodes   |-> glyphInstanceUnicodes]]))

\* a variant that keeps the mutator of the instance's own masters in the cache
MakeGlyphCachesOwnMutator(p, d, inst, f, glyphName) ==
    Bind(getGlyphMutator(p, d, glyphName, FALSE, TRUE), LAMBDA r :
        IF r.exc # NoException
        THEN Step(Problem(r.p, <<"Could not make mutator for glyph", glyphName>>), f)
        ELSE IF r.ret = None THEN Step(r.p, f)
        ELSE
        LET glyphData == IF glyphName \in DOMAIN inst.glyphs THEN inst.glyphs[glyphName]
                         ELSE NoGlyphData
            f1 == [f EXCEPT !.glyphs = NewGlyph(f.glyphs, glyphName)]
            glyphInstanceLocation ==
                IF glyphData.instanceLocation = None THEN inst.location
                ELSE glyphData.instanceLocation
            neutral == NeutralItem(r.ret.items, d.defaultLoc)
            uniValues == IF neutral = None THEN <<>> ELSE neutral.value.unicodes
            glyphInstanceUnicodes ==
                IF glyphData.unicodes = None THEN uniValues ELSE glyphData.unicodes.values
        IN  IF glyphData.mute THEN Step(r.p, f1)
            ELSE IF glyphData.masters = <<>>
            THEN PlaceGlyph(r.p, f1, glyphName, r.ret, glyphInstanceLocation,
                            glyphInstanceUnicodes)
            ELSE Bind(OverrideItems(r.p, glyphData.masters, glyphName, 1), LAMBDA own :
                 IF own.exc # NoException THEN StepRaised(r.p, f1, own.exc)
                 ELSE Bind(Unpacked(getVariationModel(r.p, d, "glyph", own.items)),
                           LAMBDA built :
                      IF built.exc # NoException THEN StepRaised(built.p, f1, built.exc)
                      ELSE PlaceGlyph([built.p EXCEPT !.glyphMutators =
                                          Put(@, <<glyphName, FALSE>>, built.ret)],
                                      f1, glyphName, built.ret,
                                      glyphInstanceLocation, glyphInstanceUnicodes))))

MakeGlyph(p, d, inst, f, glyphName) ==
    Bind(getGlyphMutator(p, d, glyphName, FALSE, TRUE), LAMBDA r :
        IF r.exc # NoException
        THEN Step(Problem(r.p, <<"Could not make mutator for glyph", glyphName>>), f)
        ELSE IF r.ret = None THEN Step(r.p, f)
        ELSE
        LET glyphData == IF glyphName \in DOMAIN inst.glyphs THEN inst.glyphs[glyphName]
                         ELSE NoGlyphData
            f1 == [f EXCEPT !.glyphs = NewGlyph(f.glyphs, glyphName)]
            glyphInstanceLocation ==
                IF glyphData.instanceLocation = None THEN inst.location
                ELSE glyphData.instanceLocation
            neutral == NeutralItem(r.ret.items, d.defaultLoc)
            uniValues == IF neutral = None THEN <<>> ELSE neutral.value.unicodes
            glyphInstanceUnicodes ==
                IF glyphData.unicodes = None THEN uniValues ELSE glyphData.unicodes.values
        IN  IF glyphData.mute THEN Step(r.p, f1)
            ELSE IF glyphData.masters = <<>>
            THEN PlaceGlyph(r.p, f1, glyphName, r.ret, glyphInstanceLocation,
                            glyphInstanceUnicodes)
            ELSE Bind(OverrideItems(r.p, glyphData.masters, glyphName, 1), LAMBDA own :
                 IF own.exc # NoException THEN StepRaised(r.p, f1, own.exc)
                 ELSE Bind(Unpacked(getVariationModel(r.p, d, "glyph", own.items)),
                           LAMBDA built :
                      IF built.exc # NoException THEN StepRaised(built.p, f1, built.exc)
                      ELSE PlaceGlyph(built.p, f1, glyphName, built.ret,
                                      glyphInstanceLocation, glyphInstanceUnicodes))))

RECURSIVE MakeGlyphs(_, _, _, _, _, _)
MakeGlyphs(p, d, inst, f, selectedGlyphNames, i) ==
    IF i > Len(selectedGlyphNames) THEN Step(p, f)
    ELSE Bind(MakeGlyph(p, d, inst, f, selectedGlyphNames[i]), LAMBDA s :
         IF s.exc # NoException THEN s
         ELSE MakeGlyphs(s.p, d, inst, s.font, selectedGlyphNames, i + 1))

\* a variant whose ranges leave out their two ends
evaluateConditionsExclusive(conditions, location) ==
    \A i \in 1..Len(conditions) :
        LET cd == conditions[i]
            value == location[cd.name].x
        IN  IF cd.minimum = None THEN value < cd.maximum[1]
            ELSE IF cd.maximum = None THEN cd.minimum[1] < value
            ELSE cd.minimum[1] < value /\ value < cd.maximum[1]

\* fontTools.designspaceLib.evaluateConditions: every condition of one
\* condition set holds at the location: without a minimum the value is not
\* above the maximum, without a maximum the minimum is not above the value,
\* else minimum <= value <= maximum. Of an anisotropic axis value the
\* horizontal half is compared here.
evaluateConditions(conditions, location) ==
    \A i \in 1..Len(conditions) :
        LET cd == conditions[i]
            value == location[cd.name].x
        IN  IF cd.minimum = None THEN ~(value > cd.maximum[1])
            ELSE IF cd.maximum = None THEN ~(cd.minimum[1] > value)
            ELSE cd.minimum[1] <= value /\ value <= cd.maximum[1]

evaluateRule(rule, location) ==
    \E i \in 1..Len(rule.conditionSets) : evaluateConditions(rule.conditionSets[i], location)

\* one rule applied to the running name list: the first pair whose old name
\* is the name gives the new name
ApplySubs(subs, name) ==
    LET hits == {i \in 1..Len(subs) : subs[i][1] = name}
    IN  IF hits = {} THEN name
        ELSE subs[CHOOSE i \in hits : \A j \in hits : i <= j][2]

\* a variant in which every rule reads the names as they came in and the
\* last satisfied rule with a substitution for a name gives the result
processRulesLaterWins(rules, location, names) ==
    [i \in 1..Len(names) |->
        LET hits == {k \in 1..Len(rules) :
                        /\ evaluateRule(rules[k], location)
                        /\ ApplySubs(rules[k].subs, names[i]) # names[i]}
        IN  IF hits = {} THEN names[i]
            ELSE ApplySubs(rules[CHOOSE k \in hits : \A j \in hits : j <= k].subs, names[i])]

RECURSIVE processRules(_, _, _)
processRules(rules, location, names) ==
    IF rules = <<>> THEN names
    ELSE processRules(Tail(rules), location,
             IF evaluateRule(Head(rules), location)
             THEN [i \in 1..Len(names) |-> ApplySubs(Head(rules).subs, names[i])]
             ELSE names)

\* lines 611-615: the swaps of the rules, in the order of self.glyphNames
RECURSIVE SwapAll(_, _, _, _)
SwapAll(f, oldNames, newNames, i) ==
    IF i > Len(oldNames) THEN f
    ELSE SwapAll(IF oldNames[i] # newNames[i]
                 THEN swapGlyphNames(f, oldNames[i], newNames[i]) ELSE f,
                 oldNames, newNames, i + 1)

makeInstance(p0, d, inst, doRules) ==
    LET p == [p0 EXCEPT !.made = @ + 1]
        loc == inst.location
        anisotropic == isAnisotropic(loc)
        locHorizontal == IF anisotropic THEN splitAnisotropic(loc).x ELSE loc
        locVertical == IF anisotropic THEN splitAnisotropic(loc).y ELSE loc
        default == findDefault(d)
        Ordered(f) == IF "public.glyphOrder" \in DOMAIN f.lib THEN f
                      ELSE [f EXCEPT !.lib = Put(@, "public.glyphOrder", p.glyphNames)]
        Ruled(f) == IF doRules
                    THEN SwapAll(f, p.glyphNames,
                                 processRules(d.rules, loc, p.glyphNames), 1)
                    ELSE f
    IN  IF default = None THEN Raised(p, "AttributeError")
        ELSE IF default.name \notin DOMAIN p.fonts THEN Raised(p, "KeyError")
        ELSE
        Bind(MakeKerning(p, d, inst, locHorizontal, EmptyFont), LAMBDA k :
        Bind(MakeInfo(k.p, d, inst, anisotropic, locHorizontal, locVertical, k.font),
             LAMBDA n :
        Bind(CopyThrough(n.p, d, n.font, 1), LAMBDA c :
            IF c.exc # NoException THEN Raised(c.p, c.exc)
            ELSE Bind(MakeGlyphs(c.p, d, inst, Ordered(c.font), p.glyphNames, 1), LAMBDA g :
                 IF g.exc # NoException THEN Raised(g.p, g.exc)
                 ELSE Returned(g.p, [Ruled(g.font) EXCEPT
                                        !.lib = Put(@, "designspace", inst.location)])))))

-----------------------------------------------------------------------------
(* DesignSpaceProcessor.generateUFO and build                               *)

\* no UFO at a path
NoPath == None

RECURSIVE GenerateInstances(_, _, _, _)
GenerateInstances(p, d, processRulesFlag, i) ==
    IF i > Len(d.instances) THEN Returned(p, TRUE)
    ELSE LET inst == d.instances[i]
         IN  IF inst.path = NoPath THEN GenerateInstances(p, d, processRulesFlag, i + 1)
             ELSE Bind(makeInstance(p, d, inst, processRulesFlag), LAMBDA r :
                  LET existing == r.p.disk[inst.path]
                      q == IF existing # None /\ existing[1] > d.ufoVersion
                           THEN Problem(r.p, <<"Can't overwrite existing UFO", inst.path>>)
                           ELSE Problem([r.p EXCEPT
                                            !.disk[inst.path] = <<d.ufoVersion>>,
                                            !.saves = Append(@, [path |-> inst.path,
                                                                 font |-> r.ret])],
                                        <<"Generated", inst.path>>)
                  IN  IF r.exc # NoException THEN r
                      ELSE Bind(q, LAMBDA saved :
                                GenerateInstances(saved, d, processRulesFlag, i + 1)))

\* a variant that looks for the default source after the instances
generateUFODefaultCheckLast(p, d, processRulesFlag) ==
    Bind(loadFonts(p, d, FALSE), LAMBDA loaded :
    Bind(GenerateInstances(loaded, d, processRulesFlag, 1), LAMBDA r :
        IF r.exc # NoException THEN r
        ELSE IF findDefault(d) = None THEN Raised(r.p, "UFOProcessorError")
        ELSE r))

generateUFO(p, d, processRulesFlag) ==
    Bind(loadFonts(p, d, FALSE), LAMBDA loaded :
        IF findDefault(d) = None THEN Raised(loaded, "UFOProcessorError")
        ELSE GenerateInstances(loaded, d, processRulesFlag, 1))

\* DesignSpaceProcessor.__init__ followed by read(): nothing loaded or built
NewProcessor(firstId, files) ==
    [fonts |-> <<>>, fontsLoaded |-> FALSE, glyphNames |-> <<>>,
     glyphMutators |-> <<>>, infoMutator |-> None, kerningMutator |-> None,
     problems |-> <<>>, nextId |-> firstId, disk |-> files,
     built |-> 0, made |-> 0, saves |-> <<>>, silent |-> <<>>]

\* build(documentPath) for the path of one designspace file: the exception
\* of generateUFO is caught and at most handed to the logger
build(firstId, files, d, processRulesFlag) ==
    LET document == NewProcessor(firstId, files)
    IN  Bind(generateUFO(document, d, processRulesFlag), LAMBDA r :
            IF r.exc # NoException
            THEN Returned([r.p EXCEPT !.silent = Append(@, <<r.exc, "build">>)], <<>>)
            ELSE Returned(r.p, <<r.ret>>))

-----------------------------------------------------------------------------
(* The designspace documents the processor is checked on                    *)

PointGlyph(x, y, components, width, unicodes) ==
    [outline |-> <<<<x, y>>>>, components |-> components, width |-> width,
     unicodes |-> unicodes]

SourceInfo(ascender, widthX, copyright) ==
    [EmptyInfo EXCEPT !.ascender = <<ascender>>, !.postscriptDefaultWidthX = <<widthX>>,
                      !.copyright = <<copyright>>]

LightUFO ==
    [glyphs   |-> (NameA :> PointGlyph(100, 700, <<>>, 500, <<97>>)) @@
                  (NameB :> PointGlyph(50, 0, <<NameA>>, 600, <<98>>)),
     kerning  |-> (<<NameA, NameB>> :> (-20)),
     groups   |-> ("public.kern1.a" :> <<NameA>>),
     info     |-> SourceInfo(700, 500, "light"),
     lib      |-> ("com.foundry.master" :> <<"light">>),
     features |-> [text |-> "light"],
     layers   |-> <<>>]

BoldUFO ==
    [glyphs   |-> (NameA :> PointGlyph(200, 800, <<>>, 700, <<97>>)) @@
                  (NameB :> PointGlyph(150, 0, <<NameA>>, 800, <<98>>)),
     kerning  |-> (<<NameA, NameB>> :> (-40)),
     groups   |-> ("public.kern1.a" :> <<NameA>>),
     info     |-> SourceInfo(800, 700, "bold"),
     lib      |-> ("com.foundry.master" :> <<"bold">>),
     features |-> [text |-> "bold"],
     layers   |-> <<>>]

\* a bold master whose glyph a has one point more than the light one
OddBoldUFO ==
    [BoldUFO EXCEPT !.glyphs[NameA].outline = <<<<200, 800>>, <<300, 0>>>>]

Light ==
    [name |-> "light", location |-> Loc(0), exists |-> TRUE, mutedGlyphNames |-> {},
     layerName |-> NoLayer, copyInfo |-> TRUE, copyLib |-> TRUE, copyFeatures |-> TRUE]

Bold ==
    [name |-> "bold", location |-> Loc(1000), exists |-> TRUE, mutedGlyphNames |-> {},
     layerName |-> NoLayer, copyInfo |-> FALSE, copyLib |-> FALSE, copyFeatures |-> FALSE]

MediumPath == <<"medium.ufo">>
HeavyPath == <<"heavy.ufo">>

Medium ==
    [location |-> Loc(500), path |-> MediumPath, kerning |-> TRUE, glyphs |-> <<>>,
     familyName |-> <<"Family">>, styleName |-> <<"Medium">>,
     postScriptFontName |-> <<"Family-Medium">>,
     styleMapFamilyName |-> <<"Family Medium">>, styleMapStyleName |-> <<"regular">>]

Heavy ==
    [Medium EXCEPT !.location = Loc(1000), !.path = HeavyPath,
                   !.styleName = <<"Heavy">>, !.postScriptFontName = <<"Family-Heavy">>]

\* an instance without a path, at an anisotropic location
Preview ==
    [Medium EXCEPT !.location = [a \in Axes |-> Pair(500, 1000)], !.path = NoPath,
                   !.styleName = <<"Preview">>]

\* a is replaced by b from weight 400 upwards
RuleAB ==
    [conditionSets |-> << <<[name |-> "weight", minimum |-> <<400>>, maximum |-> None]>> >>,
     subs |-> << <<NameA, NameB>> >>]

Master(fontName, location) ==
    [font |-> fontName, glyphName |-> None, location |-> location]

\* a master that names the glyph it takes
MasterOf(fontName, glyphName, location) ==
    [font |-> fontName, glyphName |-> glyphName, location |-> location]

DocPlain ==
    [sources |-> <<Light, Bold>>, instances |-> <<Medium, Preview>>, rules |-> <<RuleAB>>,
     ufos |-> ("light" :> LightUFO) @@ ("bold" :> BoldUFO),
     defaultLoc |-> Loc(0), useVarlib |-> FALSE, ufoVersion |-> 3,
     order |-> <<NameA, NameB>>,
     disk |-> (MediumPath :> None) @@ (HeavyPath :> None)]

\* no source at the default location
DocNoDefault ==
    [DocPlain EXCEPT !.sources = <<[Light EXCEPT !.location = Loc(200)], Bold>>]

\* the UFO of the bold source is missing, and the bold source is the one
\* flagged for the copy of info, lib and features
DocMissingFlagged ==
    [DocPlain EXCEPT !.sources =
        <<[Light EXCEPT !.copyInfo = FALSE, !.copyLib = FALSE, !.copyFeatures = FALSE],
          [Bold EXCEPT !.exists = FALSE, !.copyInfo = TRUE]>>]

\* instances with masters of their own: Medium takes glyph a from a font that
\* is not loaded, Heavy takes glyph b from the bold master alone
DocOverride ==
    [DocPlain EXCEPT !.instances =
        <<[Medium EXCEPT !.glyphs =
              (NameA :> [NoGlyphData EXCEPT !.masters = <<Master("ghost", Loc(0))>>])],
          [Heavy EXCEPT !.glyphs =
              (NameB :> [NoGlyphData EXCEPT !.masters = <<Master("bold", Loc(1000))>>])]>>]

\* masters of a that do not align, under varLib; b is muted in the default
\* source; the set order of the names is the other one
DocOdd ==
    [DocPlain EXCEPT !.sources = <<[Light EXCEPT !.mutedGlyphNames = {NameB}], Bold>>,
                     !.ufos = ("light" :> LightUFO) @@ ("bold" :> OddBoldUFO),
                     !.useVarlib = TRUE,
                     !.order = <<NameB, NameA>>]

\* UFO2 is generated and medium.ufo holds a UFO3 already; the Medium
\* instance makes its b from the masters of a, the Heavy instance mutes b
DocNewer ==
    [DocPlain EXCEPT !.instances =
                        <<[Medium EXCEPT !.glyphs =
                              (NameB :> [NoGlyphData EXCEPT !.masters =
                                            <<MasterOf("light", NameA, Loc(0)),
                                              MasterOf("bold", NameA, Loc(1000))>>])],
                          [Heavy EXCEPT !.glyphs = (NameB :> [NoGlyphData EXCEPT !.mute = TRUE])]>>,
                     !.ufoVersion = 2,
                     !.disk = (MediumPath :> <<3>>) @@ (HeavyPath :> <<2>>)]

\* b is muted in the default source, and the one instance brings the masters
\* of b itself
DocMutedDefault ==
    [DocPlain EXCEPT !.sources = <<[Light EXCEPT !.mutedGlyphNames = {NameB}], Bold>>,
                     !.instances =
                        <<[Medium EXCEPT !.glyphs =
                              (NameB :> [NoGlyphData EXCEPT !.masters =
                                            <<Master("light", Loc(0)),
                                              Master("bold", Loc(1000))>>])]>>]

\* the UFO of the bold source is missing; the light source is the flagged one
DocMissing ==
    [DocPlain EXCEPT !.sources = <<Light, [Bold EXCEPT !.exists = FALSE]>>,
                     !.instances = <<Medium>>]

\* from weight 400 upwards a is replaced by b and b by a
RuleBoth ==
    [RuleAB EXCEPT !.subs = << <<NameA, NameB>>, <<NameB, NameA>> >>]

\* one instance, and the rule that exchanges a and b
DocExchange ==
    [DocPlain EXCEPT !.instances = <<Medium>>, !.rules = <<RuleBoth>>]

\* the Medium instance makes its b from the masters of a, the Heavy instance
\* after it brings no masters of its own
DocOwnThenShared ==
    [DocPlain EXCEPT !.instances =
        <<[Medium EXCEPT !.glyphs =
              (NameB :> [NoGlyphData EXCEPT !.masters =
                            <<MasterOf("light", NameA, Loc(0)),
                              MasterOf("bold", NameA, Loc(1000))>>])],
          Heavy>>]

Docs == <<DocPlain, DocNoDefault, DocMissingFlagged, DocOverride, DocOdd, DocNewer,
          DocMutedDefault, DocMissing, DocExchange, DocOwnThenShared>>

SourceNames == {"light", "bold"}
GlyphNames == {NameA, NameB}

-----------------------------------------------------------------------------
(* The processor as a state machine: one action per call                    *)

\* API calls and edits followed in one behaviour
MaxCalls == 3

\* the processor object, with the record of the call about to run empty
Self ==
    [fonts |-> fonts, fontsLoaded |-> fontsLoaded, glyphNames |-> glyphNames,
     glyphMutators |-> glyphMutators, infoMutator |-> infoMutator,
     kerningMutator |-> kerningMutator, problems |-> problems, nextId |-> nextId,
     disk |-> disk, built |-> 0, made |-> 0, saves |-> <<>>, silent |-> <<>>]

CallRecord(op, args, r) ==
    [op |-> op, args |-> args, exc |-> r.exc, ret |-> r.ret,
     built |-> r.p.built, made |-> r.p.made, saves |-> r.p.saves,
     silent |-> r.p.silent, problems |-> r.p.problems]

NoCall ==
    [op |-> "none", args |-> <<>>, exc |-> NoException, ret |-> None,
     built |-> 0, made |-> 0, saves |-> <<>>, silent |-> <<>>, problems |-> <<>>]

\* a method of the processor has run with outcome r
Commit(op, args, r) ==
    /\ calls < MaxCalls
    /\ calls' = calls + 1
    /\ fonts' = r.p.fonts
    /\ fontsLoaded' = r.p.fontsLoaded
    /\ glyphNames' = r.p.glyphNames
    /\ glyphMutators' = r.p.glyphMutators
    /\ infoMutator' = r.p.infoMutator
    /\ kerningMutator' = r.p.kerningMutator
    /\ problems' = r.p.problems
    /\ nextId' = r.p.nextId
    /\ disk' = r.p.disk
    /\ last' = CallRecord(op, args, r)
    /\ UNCHANGED <<doc, font, fontHist, callHist>>

Init ==
    /\ \E i \in DOMAIN Docs : doc = Docs[i]
    /\ fonts = <<>>
    /\ fontsLoaded = FALSE
    /\ glyphNames = <<>>
    /\ glyphMutators = <<>>
    /\ infoMutator = None
    /\ kerningMutator = None
    /\ problems = <<>>
    /\ nextId = 1
    /\ disk = doc.disk
    /\ calls = 0
    /\ last = NoCall
    /\ font = EmptyFont
    /\ fontHist = <<>>
    /\ callHist = <<>>

LoadFonts(reload) ==
    \E r \in {Returned(loadFonts(Self, doc, reload), None)} :
        Commit("loadFonts", <<reload>>, r)

GetInfoMutator ==
    \E r \in {getInfoMutator(Self, doc)} : Commit("getInfoMutator", <<>>, r)

GetKerningMutator ==
    \E r \in {getKerningMutator(Self, doc)} : Commit("getKerningMutator", <<>>, r)

GetGlyphMutator(glyphName, decomposeComponents, fromCache) ==
    \E r \in {getGlyphMutator(Self, doc, glyphName, decomposeComponents, fromCache)} :
        Commit("getGlyphMutator", <<glyphName, decomposeComponents, fromCache>>, r)

MakeInstance(i, doRules) ==
    \E r \in {makeInstance(Self, doc, doc.instances[i], doRules)} :
        Commit("makeInstance", <<i, doRules>>, r)

GenerateUFO(processRulesFlag) ==
    \E r \in {generateUFO(Self, doc, processRulesFlag)} :
        Commit("generateUFO", <<processRulesFlag>>, r)

\* build() works on a processor of its own: of this one it shares the disk
Build(processRulesFlag) ==
    \E r \in {build(nextId, disk, doc, processRulesFlag)} :
        /\ calls < MaxCalls
        /\ calls' = calls + 1
        /\ nextId' = r.p.nextId
        /\ disk' = r.p.disk
        /\ last' = CallRecord("build", <<processRulesFlag>>, r)
        /\ UNCHANGED <<doc, fonts, fontsLoaded, glyphNames, glyphMutators, infoMutator,
                       kerningMutator, problems, font, fontHist, callHist>>

\* the caller changes the source data: a master glyph gets wider, or is
\* deleted from its font
Edited(op, args, newFonts) ==
    /\ calls < MaxCalls
    /\ calls' = calls + 1
    /\ fonts' = newFonts
    /\ last' = [NoCall EXCEPT !.op = op, !.args = args, !.problems = problems]
    /\ UNCHANGED <<doc, fontsLoaded, glyphNames, glyphMutators, infoMutator, kerningMutator,
                   problems, nextId, disk, font, fontHist, callHist>>

EditSourceGlyph(sourceName, glyphName) ==
    /\ sourceName \in DOMAIN fonts
    /\ fonts[sourceName] # None
    /\ glyphName \in DOMAIN fonts[sourceName].glyphs
    /\ Edited("editSourceGlyph", <<sourceName, glyphName>>,
              [fonts EXCEPT ![sourceName].glyphs[glyphName].width = @ + 100])

DeleteSourceGlyph(sourceName, glyphName) ==
    /\ sourceName \in DOMAIN fonts
    /\ fonts[sourceName] # None
    /\ glyphName \in DOMAIN fonts[sourceName].glyphs
    /\ Edited("deleteSourceGlyph", <<sourceName, glyphName>>,
              [fonts EXCEPT ![sourceName].glyphs =
                  [n \in (DOMAIN fonts[sourceName].glyphs) \ {glyphName} |->
                      fonts[sourceName].glyphs[n]]])

Next ==
    \/ \E reload \in BOOLEAN : LoadFonts(reload)
    \/ GetInfoMutator
    \/ GetKerningMutator
    \/ \E glyphName \in GlyphNames, decomposeComponents \in BOOLEAN, fromCache \in BOOLEAN :
          GetGlyphMutator(glyphName, decomposeComponents, fromCache)
    \/ \E i \in 1..Len(doc.instances), doRules \in BOOLEAN : MakeInstance(i, doRules)
    \/ \E processRulesFlag \in BOOLEAN : GenerateUFO(processRulesFlag)
    \/ \E processRulesFlag \in BOOLEAN : Build(processRulesFlag)
    \/ \E sourceName \in SourceNames : EditSourceGlyph(sourceName, NameA)
    \/ \E sourceName \in SourceNames : DeleteSourceGlyph(sourceName, NameA)

Spec == Init /\ [][Next]_vars

-----------------------------------------------------------------------------
(* The rules step of makeInstance on its own: processRules(self.rules, loc, *)
(* self.glyphNames) for rule lists, locations and name lists of a document  *)

NameAlt == <<"a", "alt">>

\* a becomes a.alt between weight 500 and 1000
RuleAlt ==
    [conditionSets |-> << <<[name |-> "weight", minimum |-> <<500>>, maximum |-> <<1000>>]>> >>,
     subs |-> << <<NameA, NameAlt>> >>]

\* b becomes c where weight is in 500..1000 and width at most 50, or where
\* weight is at most 300
RuleBC ==
    [conditionSets |->
        << <<[name |-> "weight", minimum |-> <<500>>, maximum |-> <<1000>>],
             [name |-> "width", minimum |-> None, maximum |-> <<50>>]>>,
           <<[name |-> "weight", minimum |-> None, maximum |-> <<300>>]>> >>,
     subs |-> << <<NameB, NameC>> >>]

RulePool == {RuleAlt, RuleAB, RuleBC}

\* rules in one document
MaxRules == 2

RuleLists == UNION {[1..n -> RulePool] : n \in 0..MaxRules}

RuleLocations ==
    {("weight" :> Scalar(w)) @@ ("width" :> Scalar(x)) :
        w \in {300, 500, 700, 1000, 1100}, x \in {0, 100}}

RuleGlyphNames == {<<NameA, NameB>>, <<NameB, NameC, NameA>>}

InitRules ==
    /\ doc \in {[rules |-> rs, location |-> l] : rs \in RuleLists, l \in RuleLocations}
    /\ glyphNames \in RuleGlyphNames
    /\ font = EmptyFont
    /\ fontHist = <<>>
    /\ callHist = <<>>
    /\ fonts = <<>>
    /\ fontsLoaded = TRUE
    /\ glyphMutators = <<>>
    /\ infoMutator = None
    /\ kerningMutator = None
    /\ problems = <<>>
    /\ nextId = 1
    /\ disk = <<>>
    /\ calls = 0
    /\ last = NoCall

\* line 612: resultNames = processRules(self.rules, loc, self.glyphNames)
ProcessRules ==
    /\ calls = 0
    /\ calls' = 1
    /\ last' = [NoCall EXCEPT !.op = "processRules",
                              !.ret = processRules(doc.rules, doc.location, glyphNames)]
    /\ UNCHANGED <<font, fontHist, callHist, doc, fonts, fontsLoaded, glyphNames,
                   glyphMutators, infoMutator, kerningMutator, problems, nextId, disk>>

NextRules == ProcessRules

SpecRules == InitRules /\ [][NextRules]_vars

-----------------------------------------------------------------------------
(* collectMastersForGlyph on its own, for sources with layers               *)

\* a bold master with a layer "support" that holds a glyph b of its own
BoldLayered ==
    [BoldUFO EXCEPT !.layers = ("support" :> (NameB :> PointGlyph(170, 0, <<NameA>>, 820, <<98>>)))]

\* the same, with b in the layer only
BoldSparse ==
    [BoldLayered EXCEPT !.glyphs = (NameA :> BoldUFO.glyphs[NameA])]

\* a bold master whose a has b as a component, while b has a
BoldCyclic ==
    [BoldUFO EXCEPT !.glyphs[NameA].components = <<NameB>>]

CollectDocs ==
    {[DocPlain EXCEPT !.sources = <<Light, [Bold EXCEPT !.mutedGlyphNames = muted,
                                                        !.layerName = layerName,
                                                        !.exists = exists]>>,
                      !.ufos = ("light" :> LightUFO) @@ ("bold" :> ufo)] :
        muted \in {{}, {NameB}}, layerName \in {NoLayer, "support", "nosuch"},
        exists \in BOOLEAN, ufo \in {BoldUFO, BoldLayered, BoldSparse, BoldCyclic}}

\* the processor after read() and loadFonts()
InitCollect ==
    /\ doc \in CollectDocs
    /\ \E p \in {loadFonts(NewProcessor(1, doc.disk), doc, FALSE)} :
          /\ fonts = p.fonts
          /\ fontsLoaded = p.fontsLoaded
          /\ glyphNames = p.glyphNames
          /\ glyphMutators = p.glyphMutators
          /\ infoMutator = p.infoMutator
          /\ kerningMutator = p.kerningMutator
          /\ problems = p.problems
          /\ nextId = p.nextId
          /\ disk = p.disk
    /\ calls = 0
    /\ last = NoCall
    /\ font = EmptyFont
    /\ fontHist = <<>>
    /\ callHist = <<>>

CollectMastersForGlyph(glyphName, decomposeComponents) ==
    \E m \in {collectMastersForGlyph(Self, doc, glyphName, decomposeComponents)} :
        /\ calls = 0
        /\ calls' = 1
        /\ last' = [NoCall EXCEPT !.op = "collectMastersForGlyph",
                                  !.args = <<glyphName, decomposeComponents>>,
                                  !.exc = m.exc, !.ret = m.items, !.problems = problems]
        /\ UNCHANGED <<doc, fonts, fontsLoaded, glyphNames, glyphMutators, infoMutator,
                       kerningMutator, problems, nextId, disk, font, fontHist, callHist>>

NextCollect ==
    \E glyphName \in GlyphNames, decomposeComponents \in BOOLEAN :
        CollectMastersForGlyph(glyphName, decomposeComponents)

SpecCollect == InitCollect /\ [][NextCollect]_vars

-----------------------------------------------------------------------------
(* isAnisotropic and splitAnisotropic on their own, for the locations of    *)
(* instances over one and two axes                                          *)

SplitValues == {0, 500, 1000}

AxisValues ==
    {Scalar(v) : v \in SplitValues} \cup {Pair(x, y) : x \in SplitValues, y \in SplitValues}

SplitLocations ==
    UNION {[axes -> AxisValues] : axes \in {{}, {"weight"}, {"weight", "width"}}}

\* doc is the location handed in
InitSplit ==
    /\ doc \in SplitLocations
    /\ glyphNames = <<>>
    /\ font = EmptyFont
    /\ fontHist = <<>>
    /\ callHist = <<>>
    /\ fonts = <<>>
    /\ fontsLoaded = FALSE
    /\ glyphMutators = <<>>
    /\ infoMutator = None
    /\ kerningMutator = None
    /\ problems = <<>>
    /\ nextId = 1
    /\ disk = <<>>
    /\ calls = 0
    /\ last = NoCall

SplitCall(op, ret) ==
    /\ calls = 0
    /\ calls' = 1
    /\ last' = [NoCall EXCEPT !.op = op, !.ret = ret]
    /\ UNCHANGED <<font, fontHist, callHist, doc, fonts, fontsLoaded, glyphNames,
                   glyphMutators, infoMutator, kerningMutator, problems, nextId, disk>>

IsAnisotropic == SplitCall("isAnisotropic", isAnisotropic(doc))

SplitAnisotropic == SplitCall("splitAnisotropic", splitAnisotropic(doc))

NextSplit == IsAnisotropic \/ SplitAnisotropic

SpecSplit == InitSplit /\ [][NextSplit]_vars

-----------------------------------------------------------------------------
(* Properties of the processor: errors and the mutator cache                *)

\* makeInstance got past its first lines: the fonts are loaded and there is
\* a default source
PastSetup ==
    /\ findDefault(doc) # None
    /\ findDefault(doc).name \in DOMAIN fonts

\* C6: in makeInstance no failure of one entity (kerning, info, the copy from
\* a flagged source, one glyph, one glyph's own masters) propagates: once
\* the fonts are loaded and a default source exists, makeInstance returns
\* the font.
C6_EntityFailureNeverPropagates ==
    (last.op = "makeInstance" /\ PastSetup) => last.exc = NoException

\* the failures of C6 that the code does catch: kerning and info of a
\* document with a missing source are logged and the call goes on to the copy
C6_KerningAndInfoFailuresLogged ==
    (last.op = "makeInstance" /\ PastSetup /\ \E n \in DOMAIN fonts : fonts[n] = None)
        => \E i \in DOMAIN last.problems : last.problems[i][1] = "Could not make fontinfo for"

\* C7: in build, generateUFO and makeInstance every exception that is caught
\* adds an entry to the problem log: no call catches one without an entry.
C7_NoErrorSilentlyDropped ==
    last.op \in {"build", "generateUFO", "makeInstance"} => last.silent = <<>>

\* C8: without a source at the default location generateUFO raises the
\* no-default error, and the run has called makeInstance for no instance and
\* saved none.
C8_NoDefaultAbortsBeforeInstances ==
    (last.op = "generateUFO" /\ findDefault(doc) = None)
        => /\ last.exc = "UFOProcessorError"
           /\ last.made = 0
           /\ last.saves = <<>>

\* generateUFO was called on a document without a default source that has
\* instances to write
C8_Witness ==
    /\ last.op = "generateUFO"
    /\ findDefault(doc) = None
    /\ \E i \in DOMAIN doc.instances : doc.instances[i].path # NoPath
    /\ last.exc = "UFOProcessorError"

\* the key of the last getGlyphMutator call, and its fromCache
LastKey(call) == <<call.args[1], call.args[2]>>
LastFromCache(call) == call.args[3]

\* a step that forces the rebuild of the glyph mutator of key
ForcedRebuild(call, key) ==
    call.op = "getGlyphMutator" /\ ~LastFromCache(call) /\ LastKey(call) = key

\* C9: a mutator that was built is served from the cache: a request with
\* fromCache = true for an entity that holds one returns it and builds
\* nothing, and an entry changes in no step but a forced rebuild of its key,
\* whatever was requested or edited in between.
C9_BuiltOnceThenServedFromCache ==
    [][ /\ (last'.op = "getGlyphMutator" /\ LastFromCache(last')
               /\ LastKey(last') \in DOMAIN glyphMutators)
           => /\ last'.exc = NoException
              /\ last'.ret = glyphMutators[LastKey(last')]
              /\ last'.built = 0
        /\ (last'.op = "getInfoMutator" /\ infoMutator # None)
           => /\ last'.exc = NoException
              /\ last'.ret = infoMutator
              /\ last'.built = 0
        /\ (last'.op = "getKerningMutator" /\ kerningMutator # None)
           => /\ last'.exc = NoException
              /\ last'.ret = kerningMutator
              /\ last'.built = 0
        /\ \A key \in DOMAIN glyphMutators :
              /\ key \in DOMAIN glyphMutators'
              /\ glyphMutators'[key] # glyphMutators[key] => ForcedRebuild(last', key)
        /\ infoMutator # None => infoMutator' = infoMutator
        /\ kerningMutator # None => kerningMutator' = kerningMutator
      ]_vars

\* a request served from the cache after the source data changed: the
\* mutator returned holds a master of glyph a that the font no longer has
C9_Witness ==
    /\ last.op = "getGlyphMutator"
    /\ LastFromCache(last)
    /\ last.exc = NoException
    /\ last.built = 0
    /\ LastKey(last) = <<NameA, FALSE>>
    /\ \E i \in DOMAIN last.ret.items, n \in DOMAIN fonts :
          /\ fonts[n] # None
          /\ NameA \in DOMAIN fonts[n].glyphs
          /\ last.ret.items[i].loc = doc.sources[CHOOSE j \in DOMAIN doc.sources :
                                                     doc.sources[j].name = n].location
          /\ last.ret.items[i].value.width # fonts[n].glyphs[NameA].width

\* C10: once the fonts are loaded, getGlyphMutator(name, d, fromCache = false)
\* always builds a new mutator from the current source data and puts it
\* into the entry of the key (name, d); every other entry stays as it is.
C10_ForcedRebuildOverwritesOwnKey ==
    [][ (last'.op = "getGlyphMutator" /\ ~LastFromCache(last') /\ fontsLoaded)
        => /\ last'.exc = NoException
           /\ last'.built = 1
           /\ last'.ret # None
           /\ last'.ret.id = nextId
           /\ DOMAIN glyphMutators' = (DOMAIN glyphMutators) \cup {LastKey(last')}
           /\ glyphMutators'[LastKey(last')] = last'.ret
           /\ \A key \in (DOMAIN glyphMutators) \ {LastKey(last')} :
                 glyphMutators'[key] = glyphMutators[key]
      ]_vars

\* what holds of C10 whether the build succeeds or not: a getGlyphMutator
\* call touches no entry but that of its own key, and answers from no other
C10_OtherKeysUntouched ==
    [][ last'.op = "getGlyphMutator"
        => /\ \A key \in (DOMAIN glyphMutators) \ {LastKey(last')} :
                 key \in DOMAIN glyphMutators' /\ glyphMutators'[key] = glyphMutators[key]
           /\ (DOMAIN glyphMutators') \subseteq (DOMAIN glyphMutators) \cup {LastKey(last')}
           /\ (last'.exc = NoException /\ LastFromCache(last')
                  /\ LastKey(last') \in DOMAIN glyphMutators)
              => last'.ret = glyphMutators[LastKey(last')]
      ]_vars

\* a forced rebuild failed and the entry of its key still holds the mutator
\* built before
C10_StaleEntryAfterFailedRebuild ==
    /\ last.op = "getGlyphMutator"
    /\ ~LastFromCache(last)
    /\ last.exc = "TypeError"
    /\ LastKey(last) \in DOMAIN glyphMutators

\* the instance of the last makeInstance call
LastInstance == doc.instances[last.args[1]]

\* makeInstance returned a font
Made == last.op = "makeInstance" /\ last.exc = NoException

\* the glyphs an instance mutes
MutedIn(inst) == {n \in DOMAIN inst.glyphs : inst.glyphs[n].mute}

\* C11: a glyph that the instance mutes is left absent: the font returned by
\* makeInstance has no glyph under that name.
C11_MutedGlyphAbsent ==
    Made => \A n \in MutedIn(LastInstance) : n \notin DOMAIN last.ret.glyphs

\* name is one of self.glyphNames
Selected(name) == \E i \in DOMAIN glyphNames : glyphNames[i] = name

\* what the code does with a muted glyph it comes to: without rules the font
\* holds it, empty
C11_MutedGlyphEmpty ==
    (Made /\ ~last.args[2])
        => \A n \in MutedIn(LastInstance) :
              Selected(n) => n \in DOMAIN last.ret.glyphs /\ last.ret.glyphs[n] = EmptyGlyph

\* the glyphs for which an instance brings masters of its own
OwnMastersIn(inst) == {n \in DOMAIN inst.glyphs : inst.glyphs[n].masters # <<>> /\ ~inst.glyphs[n].mute}

\* the items of the instance's own masters for glyph n, from the fonts as
\* they are
OwnItems(inst, n) == OverrideItems([fonts |-> fonts], inst.glyphs[n].masters, n, 1)

\* the own masters of glyph n can be read and make a model
OwnModelBuilds(inst, n) ==
    /\ OwnItems(inst, n).exc = NoException
    /\ ~BuildRaises("glyph", OwnItems(inst, n).items, doc.defaultLoc, doc.useVarlib)
    /\ ~Incompatible("glyph", OwnItems(inst, n).items)

\* the glyph the own masters give at the location of the instance
OwnGlyph(inst, n) ==
    EvaluateGlyph([id |-> 0, kind |-> "glyph", items |-> OwnItems(inst, n).items,
                   varlib |-> doc.useVarlib],
                  IF inst.glyphs[n].instanceLocation = None THEN inst.location
                  ELSE inst.glyphs[n].instanceLocation).value

FromOwnMasters(inst, n) ==
    /\ n \in DOMAIN last.ret.glyphs
    /\ last.ret.glyphs[n].outline = OwnGlyph(inst, n).outline
    /\ last.ret.glyphs[n].components = OwnGlyph(inst, n).components
    /\ last.ret.glyphs[n].width = OwnGlyph(inst, n).width

\* C12: a glyph for which the instance brings a masters list is made from
\* that list, whether or not the shared mutator of its name exists or can be
\* built: in the font returned (rules off) the glyph has the geometry its own
\* masters give.
C12_OwnMastersIgnoreSharedMutator ==
    (Made /\ ~last.args[2])
        => \A n \in OwnMastersIn(LastInstance) :
              (Selected(n) /\ OwnModelBuilds(LastInstance, n)) => FromOwnMasters(LastInstance, n)

\* what holds of C12: when the shared mutator of the name was built, the
\* glyph has the geometry of its own masters
C12_OwnMastersUsedWhenSharedBuilt ==
    (Made /\ ~last.args[2])
        => \A n \in OwnMastersIn(LastInstance) :
              (Selected(n) /\ OwnModelBuilds(LastInstance, n)
                  /\ <<n, FALSE>> \in DOMAIN glyphMutators)
              => FromOwnMasters(LastInstance, n)

\* a glyph made from its own masters whose shape is not the one the shared
\* mutator gives
C12_OwnMastersUsedWitness ==
    /\ Made /\ ~last.args[2]
    /\ \E n \in OwnMastersIn(LastInstance) :
          /\ <<n, FALSE>> \in DOMAIN glyphMutators
          /\ FromOwnMasters(LastInstance, n)
          /\ last.ret.glyphs[n].outline
                # Evaluate(glyphMutators[<<n, FALSE>>], LastInstance.location).outline

\* the three naming fields of the font are those of the instance
NamedAs(f, inst) ==
    /\ f.info.familyName = inst.familyName
    /\ f.info.styleName = inst.styleName
    /\ f.info.postScriptFontName = inst.postScriptFontName

\* C13: the naming overrides are unconditional: every font makeInstance
\* returns has the family, style and PostScript names of its instance, also
\* when the info mutator could not be built or evaluated and after the copy
\* from the flagged sources.
C13_NamesAlwaysFromInstance ==
    Made => NamedAs(last.ret, LastInstance)

\* what holds of C13: when the info mutator was built, the names are those
\* of the instance, and the copy from the flagged sources left them alone
C13_NamesFromInstanceWhenInfoBuilt ==
    (Made /\ infoMutator # None) => NamedAs(last.ret, LastInstance)

\* a font named by its instance that also got the copyright of a flagged
\* source
C13_NamedAfterCopyWitness ==
    /\ Made /\ infoMutator # None
    /\ NamedAs(last.ret, LastInstance)
    /\ last.ret.info.copyright = <<"light">>

\* makeInstance returned a font although the info mutator failed
C13_InfoFailedWitness ==
    /\ Made /\ infoMutator = None
    /\ last.ret.info.copyright = <<"light">>

\* the glyph names of every source font that is loaded
LoadedGlyphNames ==
    UNION {DOMAIN fonts[n].glyphs : n \in {m \in DOMAIN fonts : fonts[m] # None}}

\* the names in self.glyphNames
AssembledNames == {glyphNames[i] : i \in DOMAIN glyphNames}

\* C16: after any loadFonts call, with reload true or false, glyphNames is
\* the union of the glyph names of every source font that is loaded.
C16_GlyphNamesAreUnionOfSources ==
    last.op = "loadFonts" => AssembledNames = LoadedGlyphNames

\* what holds of C16: the call that loads the fonts leaves the union
C16_FirstLoadGivesUnion ==
    [][ (last'.op = "loadFonts" /\ fonts = <<>>) => AssembledNames' = LoadedGlyphNames' ]_vars

\* the fonts were loaded by an earlier call and loadFonts(reload = true) has
\* left no glyph name
C16_ReloadWitness ==
    /\ last.op = "loadFonts"
    /\ last.args[1]
    /\ LoadedGlyphNames = GlyphNames
    /\ glyphNames = <<>>

\* the glyphs of the layer a source gives its masters from: its named layer
\* when it names one, else the default layer; none when the font or the layer
\* is not there
LayerOf(sd) ==
    IF sd.name \notin DOMAIN fonts \/ fonts[sd.name] = None THEN <<>>
    ELSE IF sd.layerName = NoLayer THEN fonts[sd.name].glyphs
    ELSE IF sd.layerName \in DOMAIN fonts[sd.name].layers
    THEN fonts[sd.name].layers[sd.layerName]
    ELSE <<>>

\* the source has the glyph and does not mute it
Contributes(sd, glyphName) ==
    glyphName \in DOMAIN LayerOf(sd) /\ glyphName \notin sd.mutedGlyphNames

\* the sources that contribute, in source order
RECURSIVE Contributors(_, _)
Contributors(i, glyphName) ==
    IF i > Len(doc.sources) THEN <<>>
    ELSE (IF Contributes(doc.sources[i], glyphName) THEN <<doc.sources[i]>> ELSE <<>>)
            \o Contributors(i + 1, glyphName)

CollectDone == last.op = "collectMastersForGlyph"

\* C17: the item list of a glyph has, in source order, exactly one item for
\* every source that has the glyph (in its named layer when it names one,
\* else in its default layer) and does not mute it, with the location of the
\* source and (without decomposition) the glyph of that layer; a source that
\* mutes or lacks the glyph gives no item.
C17_OneItemPerContributingSource ==
    CollectDone =>
        LET expected == Contributors(1, last.args[1])
        IN  /\ last.exc = NoException
            /\ Len(last.ret) = Len(expected)
            /\ \A i \in DOMAIN expected :
                  /\ last.ret[i].sourceName = expected[i].name
                  /\ last.ret[i].loc = expected[i].location
                  /\ ~last.args[2] => last.ret[i].value = LayerOf(expected[i])[last.args[1]]

\* every font is there, and a source that names a layer names one its font
\* has, holding no glyph the default layer lacks
PlainSources ==
    \A i \in DOMAIN doc.sources :
        LET sd == doc.sources[i]
        IN  /\ sd.name \in DOMAIN fonts
            /\ fonts[sd.name] # None
            /\ sd.layerName # NoLayer
                => /\ sd.layerName \in DOMAIN fonts[sd.name].layers
                   /\ DOMAIN fonts[sd.name].layers[sd.layerName] \subseteq DOMAIN fonts[sd.name].glyphs

\* what holds of C17: the list is the one of the claim for such sources,
\* unless the decomposition of a cycle of components ended the call
C17_HoldsForPlainSources ==
    (CollectDone /\ PlainSources /\ last.exc # "RecursionError")
        => LET expected == Contributors(1, last.args[1])
           IN  /\ last.exc = NoException
               /\ Len(last.ret) = Len(expected)
               /\ \A i \in DOMAIN expected :
                     /\ last.ret[i].sourceName = expected[i].name
                     /\ last.ret[i].loc = expected[i].location
                     /\ ~last.args[2] => last.ret[i].value = LayerOf(expected[i])[last.args[1]]

\* a source names a layer its font does not have, and the list holds an item
\* of that source all the same: the glyph of its default layer
C17_SubstituteFromDefaultLayer ==
    /\ CollectDone /\ last.exc = NoException
    /\ \E i \in DOMAIN doc.sources, k \in DOMAIN last.ret :
          /\ doc.sources[i].layerName = "nosuch"
          /\ last.ret[k].sourceName = doc.sources[i].name
          /\ ~last.args[2]
          /\ last.ret[k].value = fonts[doc.sources[i].name].glyphs[last.args[1]]

\* a source has the glyph in its named layer only, and the list holds no
\* item of it
C17_LayerGlyphLeftOut ==
    /\ CollectDone /\ last.exc = NoException
    /\ \E i \in DOMAIN doc.sources :
          /\ Contributes(doc.sources[i], last.args[1])
          /\ doc.sources[i].layerName = "support"
          /\ \A k \in DOMAIN last.ret : last.ret[k].sourceName # doc.sources[i].name

\* the two halves of an anisotropic location
HorizontalOf(location) == [a \in DOMAIN location |-> Scalar(location[a].x)]
VerticalOf(location) == [a \in DOMAIN location |-> Scalar(location[a].y)]

\* makeInstance (rules off) returned the font of an instance at an
\* anisotropic location
MadeAnisotropic ==
    /\ Made /\ ~last.args[2]
    /\ \E a \in DOMAIN LastInstance.location : LastInstance.location[a].tuple

\* the glyphs of the font that come from the shared mutator of their name,
\* evaluated without error
SharedGlyphs ==
    {n \in DOMAIN last.ret.glyphs :
        /\ <<n, FALSE>> \in DOMAIN glyphMutators
        /\ ~EvaluateRaises(glyphMutators[<<n, FALSE>>])
        /\ n \notin DOMAIN LastInstance.glyphs}

\* C19: at an anisotropic location the metadata is (1,0) times the result at
\* the horizontal location plus (0,1) times the result at the vertical one
\* (horizontal fields from the horizontal half, vertical fields from the
\* vertical half), the geometry of a glyph is (0,1) times the horizontal
\* result plus (1,0) times the vertical one (x and width from the vertical
\* half, y from the horizontal half), and the kerning is the one at the
\* horizontal location.
C19_AnisotropicHalvesRecombined ==
    MadeAnisotropic =>
        LET H == HorizontalOf(LastInstance.location)
            V == VerticalOf(LastInstance.location)
        IN  /\ infoMutator # None
                => /\ last.ret.info.postscriptDefaultWidthX =
                         <<1 * Evaluate(infoMutator, H).postscriptDefaultWidthX
                           + 0 * Evaluate(infoMutator, V).postscriptDefaultWidthX>>
                   /\ last.ret.info.ascender =
                         <<0 * Evaluate(infoMutator, H).ascender
                           + 1 * Evaluate(infoMutator, V).ascender>>
            /\ \A n \in SharedGlyphs :
                  LET gH == Evaluate(glyphMutators[<<n, FALSE>>], H)
                      gV == Evaluate(glyphMutators[<<n, FALSE>>], V)
                      g  == last.ret.glyphs[n]
                  IN  /\ g.width = 0 * gH.width + 1 * gV.width
                      /\ Len(g.outline) = Len(gH.outline)
                      /\ \A i \in DOMAIN g.outline :
                            /\ g.outline[i][1] = 0 * gH.outline[i][1] + 1 * gV.outline[i][1]
                            /\ g.outline[i][2] = 1 * gH.outline[i][2] + 0 * gV.outline[i][2]
            /\ (LastInstance.kerning /\ kerningMutator # None)
                => last.ret.kerning = Evaluate(kerningMutator, H).pairs

\* an anisotropic instance with info, kerning and a glyph, whose two halves
\* differ in each of the three
C19_Witness ==
    /\ MadeAnisotropic
    /\ infoMutator # None
    /\ kerningMutator # None /\ LastInstance.kerning
    /\ NameA \in SharedGlyphs
    /\ LET H == HorizontalOf(LastInstance.location)
           V == VerticalOf(LastInstance.location)
       IN  /\ Evaluate(infoMutator, H) # Evaluate(infoMutator, V)
           /\ Evaluate(kerningMutator, H) # Evaluate(kerningMutator, V)
           /\ Evaluate(glyphMutators[<<NameA, FALSE>>], H).outline[1][1]
                 # Evaluate(glyphMutators[<<NameA, FALSE>>], V).outline[1][1]
           /\ Evaluate(glyphMutators[<<NameA, FALSE>>], H).outline[1][2]
                 # Evaluate(glyphMutators[<<NameA, FALSE>>], V).outline[1][2]
           /\ last.ret.kerning = Evaluate(kerningMutator, H).pairs

\* some axis value of the location is a pair
HasPair(location) == \E a \in DOMAIN location : location[a].tuple

\* the two halves paired axis by axis
Paired(horizontal, vertical) ==
    [a \in DOMAIN horizontal |-> Pair(horizontal[a].x, vertical[a].x)]

\* what C20 says of isAnisotropic and of the two halves, without the way back
SplitsAsClaimed ==
    /\ last.op = "isAnisotropic" => (last.ret <=> HasPair(doc))
    /\ last.op = "splitAnisotropic"
        => /\ DOMAIN last.ret.x = DOMAIN doc
           /\ DOMAIN last.ret.y = DOMAIN doc
           /\ ~HasPair(last.ret.x)
           /\ ~HasPair(last.ret.y)
           /\ \A a \in DOMAIN doc :
                 IF doc[a].tuple
                 THEN /\ last.ret.x[a] = Scalar(doc[a].x)
                      /\ last.ret.y[a] = Scalar(doc[a].y)
                 ELSE /\ last.ret.x[a] = doc[a]
                      /\ last.ret.y[a] = doc[a]
           /\ ~HasPair(doc) => (last.ret.x = doc /\ last.ret.y = doc)

\* the two halves paired where they differ, the common value where they agree
PairedWhereDifferent(horizontal, vertical) ==
    [a \in DOMAIN horizontal |->
        IF horizontal[a].x = vertical[a].x THEN Scalar(horizontal[a].x)
        ELSE Pair(horizontal[a].x, vertical[a].x)]

\* C20 as stated: isAnisotropic is true exactly when some axis value is a
\* pair; the two halves have the axis names of the input, neither is
\* anisotropic, a pair gives x to the horizontal and y to the vertical half
\* and a scalar goes to both, and pairing the two halves axis by axis gives
\* back the input (pairing every axis, or pairing the axes on which the
\* halves differ).
C20_PairingHalvesGivesInput ==
    /\ SplitsAsClaimed
    /\ last.op = "splitAnisotropic"
        => \/ Paired(last.ret.x, last.ret.y) = doc
           \/ PairedWhereDifferent(last.ret.x, last.ret.y) = doc

\* C20 amended: as stated, with the way back taken axis by axis and knowing
\* the input's kind of value: where the input value is a pair it is the pair
\* of the two halves' values, also when its two numbers are equal; where it
\* is a scalar both halves hold it; for an isotropic input both halves equal
\* the input.
C20_HalvesGiveInputAxisByAxis ==
    /\ SplitsAsClaimed
    /\ last.op = "splitAnisotropic"
        => \A a \in DOMAIN doc :
              IF doc[a].tuple
              THEN Paired(last.ret.x, last.ret.y)[a] = doc[a]
              ELSE /\ last.ret.x[a] = doc[a]
                   /\ last.ret.y[a] = doc[a]

\* a location with a pair of two different values on one axis and a scalar
\* on the other has been split
C20_Witness ==
    /\ last.op = "splitAnisotropic"
    /\ DOMAIN doc = {"weight", "width"}
    /\ doc["weight"].tuple /\ doc["weight"].x # doc["weight"].y
    /\ ~doc["width"].tuple
    /\ last.ret.x # last.ret.y

\* makeInstance returned a font with the rules applied
MadeRuled == Made /\ last.args[2]

\* the font of the same instance as assembled, before any rule
Assembled == makeInstance(Self, doc, LastInstance, FALSE).ret

\* the names the rules give for self.glyphNames at the instance's location
ResultNames == processRules(doc.rules, LastInstance.location, glyphNames)

\* under name the font holds the outline and width assembled for other
HoldsShapeOf(f, name, assembled, other) ==
    /\ f.glyphs[name].outline = assembled.glyphs[other].outline
    /\ f.glyphs[name].width = assembled.glyphs[other].width

\* C21: with rules on, for every glyph name n whose substituted name m
\* differs from n, both glyphs of the font, the font returned holds under n
\* the outline and width interpolated for m, whatever the rule set.
C21_RuledNameHoldsSubstitute ==
    MadeRuled =>
        \A i \in DOMAIN glyphNames :
            (/\ ResultNames[i] # glyphNames[i]
             /\ glyphNames[i] \in DOMAIN Assembled.glyphs
             /\ ResultNames[i] \in DOMAIN Assembled.glyphs)
            => /\ glyphNames[i] \in DOMAIN last.ret.glyphs
               /\ HoldsShapeOf(last.ret, glyphNames[i], Assembled, ResultNames[i])

\* what holds of C21: a name whose substitute is not itself given another
\* name holds the shape of the substitute
C21_HoldsWhenSubstituteStays ==
    MadeRuled =>
        \A i, j \in DOMAIN glyphNames :
            (/\ ResultNames[i] # glyphNames[i]
             /\ glyphNames[j] = ResultNames[i]
             /\ ResultNames[j] = glyphNames[j]
             /\ glyphNames[i] \in DOMAIN Assembled.glyphs
             /\ ResultNames[i] \in DOMAIN Assembled.glyphs)
            => HoldsShapeOf(last.ret, glyphNames[i], Assembled, ResultNames[i])

\* the rule gave b for a and the font holds the shape of b under a
C21_SwappedWitness ==
    /\ MadeRuled
    /\ \E i \in DOMAIN glyphNames :
          /\ glyphNames[i] = NameA /\ ResultNames[i] = NameB
          /\ {NameA, NameB} \subseteq DOMAIN Assembled.glyphs
          /\ Assembled.glyphs[NameA].outline # Assembled.glyphs[NameB].outline
          /\ HoldsShapeOf(last.ret, NameA, Assembled, NameB)

\* the rule gave b for a and a for b, and the font is the one assembled
C21_SwappedBackWitness ==
    /\ MadeRuled
    /\ doc.rules = <<RuleBoth>>
    /\ \E i, j \in DOMAIN glyphNames :
          /\ glyphNames[i] = NameA /\ ResultNames[i] = NameB
          /\ glyphNames[j] = NameB /\ ResultNames[j] = NameA
    /\ Assembled.glyphs[NameA].outline # Assembled.glyphs[NameB].outline
    /\ last.ret.glyphs = Assembled.glyphs

\* the path of the instance holds a UFO of a later format than the target
HoldsNewer(files, inst) ==
    /\ inst.path # NoPath
    /\ files[inst.path] # None
    /\ files[inst.path][1] > doc.ufoVersion

\* the paths of the instances to save, in declaration order: those with a
\* path that holds no newer UFO
RECURSIVE PathsToSave(_, _)
PathsToSave(files, i) ==
    IF i > Len(doc.instances) THEN <<>>
    ELSE (IF doc.instances[i].path # NoPath /\ ~HoldsNewer(files, doc.instances[i])
          THEN <<doc.instances[i].path>> ELSE <<>>) \o PathsToSave(files, i + 1)

WithPath == {i \in DOMAIN doc.instances : doc.instances[i].path # NoPath}

\* the generateUFO call of the step did, for the files found before it, what
\* C22 says
GeneratedAsClaimed ==
    /\ last'.made = Cardinality(WithPath)
    /\ [k \in DOMAIN last'.saves |-> last'.saves[k].path] = PathsToSave(disk, 1)
    /\ \A i \in WithPath :
          IF HoldsNewer(disk, doc.instances[i])
          THEN /\ disk'[doc.instances[i].path] = disk[doc.instances[i].path]
               /\ \E k \in DOMAIN last'.problems :
                     /\ k > Len(problems)
                     /\ last'.problems[k] = <<"Can't overwrite existing UFO",
                                               doc.instances[i].path>>
          ELSE disk'[doc.instances[i].path] = <<doc.ufoVersion>>

\* C22: generateUFO on a document with a default source saves nothing over
\* a UFO of a later format, records a problem for it and goes on with the
\* next instance; it does not assemble an instance without a path; it
\* assembles and saves every other instance once, in declaration order.
C22_SavesAllButNewer ==
    [][ (last'.op = "generateUFO" /\ findDefault(doc) # None)
        => (last'.exc = NoException /\ GeneratedAsClaimed) ]_vars

\* what holds of C22: a generateUFO call that returns has done so
C22_HoldsWhenNoInstanceRaises ==
    [][ (last'.op = "generateUFO" /\ last'.exc = NoException) => GeneratedAsClaimed ]_vars

\* generateUFO returned after it left a newer UFO alone and saved another
\* instance
C22_NewerKeptWitness ==
    /\ last.op = "generateUFO" /\ last.exc = NoException
    /\ \E i \in WithPath : HoldsNewer(disk, doc.instances[i])
    /\ last.saves # <<>>

\* generateUFO ended in the exception of makeInstance and saved nothing
C22_AbortedWitness ==
    /\ last.op = "generateUFO" /\ last.exc = "TypeError"
    /\ findDefault(doc) # None
    /\ last.saves = <<>>

\* collectMastersForGlyph was called with decomposeComponents = true on
\* fonts that are all there
DecomposeDone ==
    /\ CollectDone /\ last.args[2]
    /\ \A n \in DOMAIN fonts : fonts[n] # None

\* C23: collecting masters with decomposeComponents = true finishes with the
\* item list for every glyph set, also one whose components form a cycle or
\* name a glyph that is absent, and no master glyph of the list has a
\* component.
C23_DecompositionEndsSelfContained ==
    DecomposeDone =>
        /\ last.exc = NoException
        /\ \A k \in DOMAIN last.ret : last.ret[k].value.components = <<>>

\* what holds of C23: a list that is returned holds no component, and a
\* component whose base glyph is absent from the layer is dropped
C23_ReturnedMastersSelfContained ==
    (DecomposeDone /\ last.exc = NoException)
        => \A k \in DOMAIN last.ret : last.ret[k].value.components = <<>>

\* the collection ended in the recursion error of a cycle of components
C23_CycleWitness ==
    /\ DecomposeDone
    /\ last.exc = "RecursionError"
    /\ \E n \in DOMAIN fonts :
          /\ NameB \in DOMAIN fonts[n].glyphs /\ NameA \in DOMAIN fonts[n].glyphs
          /\ fonts[n].glyphs[NameA].components = <<NameB>>
          /\ fonts[n].glyphs[NameB].components = <<NameA>>

\* a master taken from a layer that lacks the base glyph of its component:
\* the list is returned and the master has its own points only
C23_AbsentBaseWitness ==
    /\ DecomposeDone /\ last.exc = NoException
    /\ \E i \in DOMAIN doc.sources, k \in DOMAIN last.ret :
          /\ doc.sources[i].layerName = "support"
          /\ last.ret[k].sourceName = doc.sources[i].name
          /\ last.args[1] \in DOMAIN LayerOf(doc.sources[i])
          /\ LayerOf(doc.sources[i])[last.args[1]].components # <<>>
          /\ last.ret[k].value.outline = LayerOf(doc.sources[i])[last.args[1]].outline

\* the items the global sources give for one cache key, from the fonts as
\* they are
GlobalItems(cacheKey) ==
    LET masters == collectMastersForGlyph(Self, doc, cacheKey[1], cacheKey[2])
    IN  [i \in 1..Len(masters.items) |->
            [loc |-> masters.items[i].loc, value |-> masters.items[i].value]]

\* the instance that is saved at a path
InstanceAt(path) ==
    doc.instances[CHOOSE i \in DOMAIN doc.instances : doc.instances[i].path = path]

\* the glyph n of a saved font is the one the cache entry of n gives at the
\* location of the instance
FromSharedMutator(save, n) ==
    LET shared == EvaluateGlyph(glyphMutators[<<n, FALSE>>],
                                InstanceAt(save.path).location).value
    IN  /\ save.font.glyphs[n].outline = shared.outline
        /\ save.font.glyphs[n].components = shared.components
        /\ save.font.glyphs[n].width = shared.width

\* generateUFO has run through, rules off
GeneratedPlain ==
    /\ last.op = "generateUFO"
    /\ last.exc = NoException
    /\ ~last.args[1]

\* every glyph a saved instance brings no data for comes from the cache entry
\* of its name
SavedGlyphsFromCache ==
    GeneratedPlain =>
        \A k \in DOMAIN last.saves :
            \A n \in DOMAIN last.saves[k].font.glyphs :
                (/\ n \notin DOMAIN InstanceAt(last.saves[k].path).glyphs
                 /\ <<n, FALSE>> \in DOMAIN glyphMutators
                 /\ ~EvaluateRaises(glyphMutators[<<n, FALSE>>]))
                => FromSharedMutator(last.saves[k], n)

\* C25: the mutator of an instance's own masters never gets into the shared
\* cache: a call of makeInstance or generateUFO leaves every cache entry as it
\* was or, where it makes one, makes it from the items of the global sources;
\* and a glyph of a later instance that brings no masters of its own is the
\* one the cache entry gives.
C25_OwnMastersStayOutOfCache ==
    [][ (last'.op \in {"makeInstance", "generateUFO"})
          => /\ \A cacheKey \in DOMAIN glyphMutators' :
                   \/ /\ cacheKey \in DOMAIN glyphMutators
                      /\ glyphMutators'[cacheKey] = glyphMutators[cacheKey]
                   \/ glyphMutators'[cacheKey].items = GlobalItems(cacheKey)'
             /\ SavedGlyphsFromCache' ]_vars

\* generateUFO has saved two instances from a fresh cache: the first made its
\* b from masters of its own, the second brings none and has the b of the
\* global sources, which is not the b the first one's masters give there
C25_Witness ==
    /\ GeneratedPlain
    /\ Len(last.saves) = 2
    /\ <<NameB, FALSE>> \in DOMAIN glyphMutators
    /\ glyphMutators[<<NameB, FALSE>>].items = GlobalItems(<<NameB, FALSE>>)
    /\ LET first == InstanceAt(last.saves[1].path)
           second == InstanceAt(last.saves[2].path)
       IN  /\ NameB \in OwnMastersIn(first)
           /\ OwnItems(first, NameB).items # GlobalItems(<<NameB, FALSE>>)
           /\ last.saves[1].font.glyphs[NameB].outline = OwnGlyph(first, NameB).outline
           /\ ~FromSharedMutator(last.saves[1], NameB)
           /\ NameB \notin DOMAIN second.glyphs
           /\ FromSharedMutator(last.saves[2], NameB)
           /\ last.saves[2].font.glyphs[NameB].outline
                 # EvaluateGlyph([glyphMutators[<<NameB, FALSE>>] EXCEPT
                                    !.items = OwnItems(first, NameB).items],
                                 second.location).value.outline

\* processRules has run
RulesDone == last.op = "processRules"

\* the claim's test of a rule: some condition set has every axis value
\* inside its inclusive range (a bound that is not given is open)
InRange(cd, location) ==
    /\ cd.minimum # None => cd.minimum[1] <= location[cd.name].x
    /\ cd.maximum # None => location[cd.name].x <= cd.maximum[1]

Satisfied(rule, location) ==
    \E k \in DOMAIN rule.conditionSets :
        \A c \in DOMAIN rule.conditionSets[k] : InRange(rule.conditionSets[k][c], location)

\* the rule has a substitution for name
Substitutes(rule, name) == \E k \in DOMAIN rule.subs : rule.subs[k][1] = name

\* the new name the rule gives for name
NewNameOf(rule, name) ==
    rule.subs[CHOOSE k \in DOMAIN rule.subs : rule.subs[k][1] = name][2]

\* C14: a rule takes effect exactly when one of its condition sets has every
\* axis value inside its inclusive range: the result has one name per input
\* name, a name that no satisfied rule substitutes stays as it is, a single
\* rule renames a name if and only if it is satisfied and has a substitution
\* for it, and the rule weight 500..1000: a -> a.alt leaves a at weight 300
\* and gives a.alt at weight 700.
C14_RuleFiresIffInRange ==
    RulesDone =>
        /\ Len(last.ret) = Len(glyphNames)
        /\ \A i \in DOMAIN glyphNames :
              /\ (\A k \in DOMAIN doc.rules :
                      ~(Satisfied(doc.rules[k], doc.location)
                           /\ Substitutes(doc.rules[k], glyphNames[i])))
                  => last.ret[i] = glyphNames[i]
              /\ Len(doc.rules) = 1
                  => last.ret[i] =
                        IF Satisfied(doc.rules[1], doc.location)
                              /\ Substitutes(doc.rules[1], glyphNames[i])
                        THEN NewNameOf(doc.rules[1], glyphNames[i])
                        ELSE glyphNames[i]
              /\ (doc.rules = <<RuleAlt>> /\ glyphNames[i] = NameA)
                  => /\ doc.location["weight"].x = 300 => last.ret[i] = NameA
                     /\ doc.location["weight"].x = 700 => last.ret[i] = NameAlt

\* the rule of the example has renamed a at weight 700
C14_Witness ==
    /\ RulesDone
    /\ doc.rules = <<RuleAlt>>
    /\ doc.location["weight"].x = 700
    /\ \E i \in DOMAIN glyphNames : glyphNames[i] = NameA /\ last.ret[i] = NameAlt

\* the satisfied rules that have a substitution for name
RulesFor(name) ==
    {k \in DOMAIN doc.rules :
        Satisfied(doc.rules[k], doc.location) /\ Substitutes(doc.rules[k], name)}

RECURSIVE Running(_, _)
Running(k, name) ==
    IF k = 0 THEN name
    ELSE LET before == Running(k - 1, name)
         IN  IF Satisfied(doc.rules[k], doc.location) /\ Substitutes(doc.rules[k], before)
             THEN NewNameOf(doc.rules[k], before)
             ELSE before

-----------------------------------------------------------------------------
(* Properties of swapGlyphNames, stated over the recorded calls             *)

\* the font before call k and the font after it
FontBefore(k) == fontHist[k]
FontAfter(k) == IF k < Len(callHist) THEN fontHist[k + 1] ELSE font
OldOf(k) == callHist[k][1]
NewOf(k) == callHist[k][2]

\* call k passed the guard of swapGlyphNames (both names are glyphs)
BothPresent(k) ==
    /\ OldOf(k) \in DOMAIN FontBefore(k).glyphs
    /\ NewOf(k) \in DOMAIN FontBefore(k).glyphs

\* call k exchanged two distinct glyphs of the font
Effective(k) == BothPresent(k) /\ OldOf(k) # NewOf(k)

\* sigma of call k: exchanges old and new, fixes every other name
Sigma(k, name) ==
    IF name = OldOf(k) THEN NewOf(k)
    ELSE IF name = NewOf(k) THEN OldOf(k)
    ELSE name

SigmaSeq(k, s) == [i \in 1..Len(s) |-> Sigma(k, s[i])]

\* outlines, widths and component references, the kerning table and the groups
FontShape(f) ==
    [glyphs  |-> [n \in DOMAIN f.glyphs |->
                    [outline    |-> f.glyphs[n].outline,
                     width      |-> f.glyphs[n].width,
                     components |-> f.glyphs[n].components]],
     kerning |-> f.kerning,
     groups  |-> f.groups]

\* no glyph name and no component reference of the font holds the parking
\* extension
NoParkingNames(f) ==
    \A n \in DOMAIN f.glyphs :
        /\ ~HasSwapExtension(n)
        /\ \A i \in 1..Len(f.glyphs[n].components) :
              ~HasSwapExtension(f.glyphs[n].components[i])

\* C1: for any font and any two distinct glyph names A and B of it, two
\* swapGlyphNames(font, A, B) calls in a row leave outlines, widths,
\* kerning, groups and component references as they were before the first.
C1_SwapTwiceRestores ==
    \A k \in 2..Len(callHist) :
        (callHist[k] = callHist[k - 1] /\ Effective(k - 1))
            => FontShape(FontAfter(k)) = FontShape(FontBefore(k - 1))

\* C1 on the fonts that hold no parking name: there the involution holds.
C1_SwapTwiceRestoresWithoutParkingNames ==
    \A k \in 2..Len(callHist) :
        (callHist[k] = callHist[k - 1] /\ Effective(k - 1)
            /\ NoParkingNames(FontBefore(k - 1)))
            => FontShape(FontAfter(k)) = FontShape(FontBefore(k - 1))

\* the component references and the outline that glyph n held before call k
\* are held by glyph sigma(n) after it, every reference renamed by sigma
ShapeFollowsSigma(k, n) ==
    /\ Sigma(k, n) \in DOMAIN FontAfter(k).glyphs
    /\ FontAfter(k).glyphs[Sigma(k, n)].components
          = SigmaSeq(k, FontBefore(k).glyphs[n].components)
    /\ FontAfter(k).glyphs[Sigma(k, n)].outline = FontBefore(k).glyphs[n].outline

NoParkingReference(k) ==
    \A n \in DOMAIN FontAfter(k).glyphs :
        \A i \in 1..Len(FontAfter(k).glyphs[n].components) :
            FontAfter(k).glyphs[n].components[i] # Append(OldOf(k), swapNameExtension)

\* C2: after swapGlyphNames(font, old, new) every component reference
\* resolves to the shape it resolved to before: a reference to old names
\* new, a reference to new names old, every other reference is unchanged,
\* and no reference names the parking glyph.
C2_ReferencesFollowShapes ==
    \A k \in 1..Len(callHist) :
        Effective(k) =>
            /\ \A n \in DOMAIN FontBefore(k).glyphs : ShapeFollowsSigma(k, n)
            /\ NoParkingReference(k)

\* C2 on the fonts that hold no parking name.
C2_ReferencesFollowShapesWithoutParkingNames ==
    \A k \in 1..Len(callHist) :
        (Effective(k) /\ NoParkingNames(FontBefore(k))) =>
            /\ \A n \in DOMAIN FontBefore(k).glyphs : ShapeFollowsSigma(k, n)
            /\ NoParkingReference(k)

\* C3: after swapGlyphNames(font, old, new) the kerning table is the
\* original one with old and new exchanged in both positions of every pair:
\* (f, s) -> v appears as (sigma(f), sigma(s)) -> v, the number of pairs is
\* unchanged and no value is lost.
C3_KerningRenamedBySigma ==
    \A k \in 1..Len(callHist) :
        BothPresent(k) =>
            LET before == FontBefore(k).kerning
                after  == FontAfter(k).kerning
            IN  /\ DOMAIN after = {<<Sigma(k, p[1]), Sigma(k, p[2])>> : p \in DOMAIN before}
                /\ \A p \in DOMAIN before :
                      after[<<Sigma(k, p[1]), Sigma(k, p[2])>>] = before[p]
                /\ Cardinality(DOMAIN after) = Cardinality(DOMAIN before)

\* a swap of two distinct glyphs has run on a table holding both (old, x)
\* and (new, x)
C3_Witness ==
    \E k \in 1..Len(callHist) :
        /\ Effective(k)
        /\ \E x \in GlyphNameUniverse :
              /\ <<OldOf(k), x>> \in DOMAIN FontBefore(k).kerning
              /\ <<NewOf(k), x>> \in DOMAIN FontBefore(k).kerning
              /\ FontAfter(k).kerning[<<OldOf(k), x>>] = FontBefore(k).kerning[<<NewOf(k), x>>]
              /\ FontAfter(k).kerning[<<OldOf(k), x>>] # FontBefore(k).kerning[<<OldOf(k), x>>]

ShapesExchanged(k) ==
    LET before == FontBefore(k).glyphs
        after  == FontAfter(k).glyphs
    IN  /\ {OldOf(k), NewOf(k)} \subseteq DOMAIN after
        /\ after[OldOf(k)].outline = before[NewOf(k)].outline
        /\ after[OldOf(k)].width = before[NewOf(k)].width
        /\ after[NewOf(k)].outline = before[OldOf(k)].outline
        /\ after[NewOf(k)].width = before[OldOf(k)].width

UnicodesKept(k) ==
    \A n \in DOMAIN FontBefore(k).glyphs :
        /\ n \in DOMAIN FontAfter(k).glyphs
        /\ FontAfter(k).glyphs[n].unicodes = FontBefore(k).glyphs[n].unicodes

\* C4: swapGlyphNames never moves unicode values: after the swap the
\* unicodes of old, of new and of every other glyph are those of before,
\* while outline and width of old and new are exchanged.
C4_UnicodesStayShapesMove ==
    \A k \in 1..Len(callHist) :
        Effective(k) => (UnicodesKept(k) /\ ShapesExchanged(k))

\* C4 on the fonts that hold no parking name.
C4_UnicodesStayShapesMoveWithoutParkingNames ==
    \A k \in 1..Len(callHist) :
        (Effective(k) /\ NoParkingNames(FontBefore(k)))
            => (UnicodesKept(k) /\ ShapesExchanged(k))

\* C5: the parking glyph never collides with a glyph of the font: the set
\* of glyph names after the swap is the set before it, and no glyph other
\* than old and new has its outline or width changed or is deleted.
C5_ParkingNeverCollides ==
    \A k \in 1..Len(callHist) :
        Effective(k) =>
            /\ DOMAIN FontAfter(k).glyphs = DOMAIN FontBefore(k).glyphs
            /\ \A n \in DOMAIN FontBefore(k).glyphs \ {OldOf(k), NewOf(k)} :
                  /\ n \in DOMAIN FontAfter(k).glyphs
                  /\ FontAfter(k).glyphs[n].outline = FontBefore(k).glyphs[n].outline
                  /\ FontAfter(k).glyphs[n].width = FontBefore(k).glyphs[n].width

\* C5 on the fonts none of whose glyph names holds the parking extension.
C5_GlyphSetKeptWithoutParkingGlyphs ==
    \A k \in 1..Len(callHist) :
        (Effective(k) /\ \A n \in DOMAIN FontBefore(k).glyphs : ~HasSwapExtension(n)) =>
            /\ DOMAIN FontAfter(k).glyphs = DOMAIN FontBefore(k).glyphs
            /\ \A n \in DOMAIN FontBefore(k).glyphs \ {OldOf(k), NewOf(k)} :
                  /\ FontAfter(k).glyphs[n].outline = FontBefore(k).glyphs[n].outline
                  /\ FontAfter(k).glyphs[n].width = FontBefore(k).glyphs[n].width

\* C24: a call with a name that is not a glyph of the font changes nothing:
\* the glyphs with their components, the kerning and the groups are those
\* before the call, and no parking glyph has been made.
C24_MissingNameChangesNothing ==
    \A k \in DOMAIN callHist :
        ~BothPresent(k)
            => /\ FontAfter(k) = FontBefore(k)
               /\ DOMAIN FontAfter(k).glyphs = DOMAIN FontBefore(k).glyphs

\* a call with one of its two names missing, on a font with kerning and
\* with a component that names the glyph that is there
C24_Witness ==
    \E k \in DOMAIN callHist :
        /\ OldOf(k) \in DOMAIN FontBefore(k).glyphs
        /\ NewOf(k) \notin DOMAIN FontBefore(k).glyphs
        /\ FontBefore(k).kerning # <<>>
        /\ \E n \in DOMAIN FontBefore(k).glyphs :
              \E i \in DOMAIN FontBefore(k).glyphs[n].components :
                  FontBefore(k).glyphs[n].components[i] = OldOf(k)
        /\ FontAfter(k) = FontBefore(k)

====
